---- MODULE Spec2Model ----
(***************************************************************************)
(* Workflow execution engine of the semantic-analysis coordinator:         *)
(* CoordinatorAgent, its QualityAssurance validator and the stuck-workflow *)
(* monitor (src/agents/coordinator.py), with the event dispatch of         *)
(* BaseAgent (src/agents/base.py).                                         *)
(*                                                                         *)
(* The coordinator runs on one asyncio event loop, so an action of this    *)
(* model is the code executed between two suspension points: the only      *)
(* points where a run task yields are the awaited agent call of            *)
(* _execute_step and the monitor's sleep.                                  *)
(***************************************************************************)
EXTENDS Integers, Sequences, FiniteSets, TLC

\* ---------------------------------------------------------------- bounds
\* number of executions created in one behaviour
MaxExec == 2
\* the clock stops advancing at this instant
MaxTime == 12
\* the history cap the model runs with; see max_history
MaxHistory == 2

\* ------------------------------------------------------------- constants
\* max_history = 100 in _workflow_monitor.  The trimming logic is checked
\* with the cap scaled down to MaxHistory, so that a history longer than
\* the cap is within reach of MaxExec executions.
max_history == MaxHistory
\* asyncio.sleep(30) between two sweeps of _workflow_monitor
MonitorSleep == 30
\* execution.config.get("max_duration", 600)
DefaultMaxDuration == 600
\* timeout=step.get("timeout", 60)
DefaultStepTimeout == 60
\* self.config.get("min_significance", 5)
MinSignificance == 5
\* "min_entities": 1
MinEntities == 1
\* min_completeness 0.8, as the fraction MinCompletenessNum / 10
MinCompletenessNum == 8
\* corrected[field] = 5  (default significance of the auto-correction)
DefaultSignificance == 5
\* value of the clock in the initial state (time.time() is never 0)
StartClock == 1

\* None of Python, for optional timestamps and optional payloads
NoTime == -1
NoneVal == [none |-> TRUE]
NoError == <<>>

\* ------------------------------------------------------------------ text
\* Strings the code builds, searches or lower-cases are sequences of
\* one-character strings.
CharsOf(s) ==
    CASE s = "coordinator" -> <<"c","o","o","r","d","i","n","a","t","o","r">>
      [] s = "semantic_analysis" -> <<"s","e","m","a","n","t","i","c","_","a","n","a","l","y","s","i","s">>
      [] s = "knowledge_graph" -> <<"k","n","o","w","l","e","d","g","e","_","g","r","a","p","h">>
      [] s = "web_search" -> <<"w","e","b","_","s","e","a","r","c","h">>
      [] s = "initialize_workflow" -> <<"i","n","i","t","i","a","l","i","z","e","_","w","o","r","k","f","l","o","w">>
      [] s = "analyze_code" -> <<"a","n","a","l","y","z","e","_","c","o","d","e">>
      [] s = "extract_patterns" -> <<"e","x","t","r","a","c","t","_","p","a","t","t","e","r","n","s">>
      [] s = "gather_context" -> <<"g","a","t","h","e","r","_","c","o","n","t","e","x","t">>
      [] s = "generate_summary" -> <<"g","e","n","e","r","a","t","e","_","s","u","m","m","a","r","y">>
      [] s = "create_entities" -> <<"c","r","e","a","t","e","_","e","n","t","i","t","i","e","s">>
      [] s = "analysis" -> <<"a","n","a","l","y","s","i","s">>
      [] s = "significance" -> <<"s","i","g","n","i","f","i","c","a","n","c","e">>
      [] s = "entities" -> <<"e","n","t","i","t","i","e","s">>
      [] s = "relations" -> <<"r","e","l","a","t","i","o","n","s">>
MissingFieldText == <<"M","i","s","s","i","n","g"," ","r","e","q","u","i","r","e","d"," ","f","i","e","l","d",":"," ">>
LowSignificanceText == <<"L","o","w"," ","s","i","g","n","i","f","i","c","a","n","c","e"," ","s","c","o","r","e",":"," ">>
InsufficientEntitiesText == <<"I","n","s","u","f","f","i","c","i","e","n","t"," ","e","n","t","i","t","i","e","s",":"," ">>
LessThanText == <<" ","<"," ">>
AgentNotFoundText == <<"A","g","e","n","t"," ","n","o","t"," ","f","o","u","n","d",":"," ">>
StepTimeoutText == <<"S","t","e","p"," ","t","i","m","e","o","u","t"," ","a","f","t","e","r"," ">>
QAFailedText == <<"Q","A"," ","v","a","l","i","d","a","t","i","o","n"," ","f","a","i","l","e","d",":"," ">>
WorkflowIncompleteText == <<"W","o","r","k","f","l","o","w"," ","i","n","c","o","m","p","l","e","t","e",":"," ">>
StepFailedText == <<"S","t","e","p"," ","f","a","i","l","e","d",":"," ">>
NoneText == <<"N","o","n","e">>
TypeErrorText == <<"a","r","g","u","m","e","n","t"," ","o","f"," ","t","y","p","e"," ","'","N","o","n","e","T","y","p","e","'"," ","i","s"," ","n","o","t"," ","i","t","e","r","a","b","l","e">>
HandlerErrorText == <<"h","a","n","d","l","e","r"," ","e","r","r","o","r">>
PlaceholderText == <<"A","u","t","o","-","g","e","n","e","r","a","t","e","d"," ","a","n","a","l","y","s","i","s"," ","p","l","a","c","e","h","o","l","d","e","r">>

UpperCase == <<"A","B","C","D","E","F","G","H","I","J","K","L","M","N","O","P","Q","R","S","T","U","V","W","X","Y","Z">>
LowerCase == <<"a","b","c","d","e","f","g","h","i","j","k","l","m","n","o","p","q","r","s","t","u","v","w","x","y","z">>

\* str.lower() on one character
LowerChar(c) ==
    IF \E i \in 1..Len(UpperCase) : UpperCase[i] = c
    THEN LowerCase[CHOOSE i \in 1..Len(UpperCase) : UpperCase[i] = c]
    ELSE c

\* str.lower()
Lower(s) == [i \in 1..Len(s) |-> LowerChar(s[i])]

\* pattern in text
Contains(text, pattern) ==
    \E i \in 0..(Len(text) - Len(pattern)) :
        SubSeq(text, i + 1, i + Len(pattern)) = pattern

Digits == <<"0","1","2","3","4","5","6","7","8","9">>

\* str(n) for a natural number n
RECURSIVE IntToChars(_)
IntToChars(n) ==
    IF n < 10 THEN <<Digits[n + 1]>>
    ELSE IntToChars(n \div 10) \o <<Digits[(n % 10) + 1]>>

\* f"{c / n:.2f}" for 0 <= c <= n, n > 0 (no tie at the third decimal for
\* the step counts of the catalog); 0 when n = 0
Fixed2(c, n) ==
    LET h == IF n = 0 THEN 0 ELSE (200 * c + n) \div (2 * n)
    IN  IntToChars(h \div 100) \o <<".">> \o
        <<Digits[((h % 100) \div 10) + 1], Digits[(h % 10) + 1]>>

\* repr() of a list of strings: ['a', 'b']
RECURSIVE JoinQuoted(_)
JoinQuoted(list) ==
    IF list = <<>> THEN <<>>
    ELSE <<"'">> \o Head(list) \o <<"'">> \o
         (IF Len(list) > 1 THEN <<",", " ">> ELSE <<>>) \o JoinQuoted(Tail(list))

ListRepr(list) == <<"[">> \o JoinQuoted(list) \o <<"]">>

\* str(x) of an optional error text
ErrorStr(err) == IF err = NoError THEN NoneText ELSE err

\* --------------------------------------------------- QualityAssurance
\* dict.get(key, default)
Get(d, key, default) == IF key \in DOMAIN d THEN d[key] ELSE default

\* d[key] = value on a dict
PutFresh(d, key, value) ==
    [k \in {key} |-> value]

Put(d, key, value) ==
    [k \in DOMAIN d \cup {key} |-> IF k = key THEN value ELSE d[k]]

\* bool(x) of an optional dict
Truth(d) == d # NoneVal /\ DOMAIN d # {}

\* rules.get("required_fields", []) of validation_rules.get(agent_id, {})
required_fields(agent_id) ==
    CASE agent_id = "semantic_analysis" -> <<"analysis", "significance">>
      [] agent_id = "knowledge_graph" -> <<"entities", "relations">>
      [] OTHER -> <<>>

critical_patterns ==
    << <<"m","i","s","s","i","n","g"," ","r","e","q","u","i","r","e","d"," ","f","i","e","l","d">>,
       <<"i","n","v","a","l","i","d"," ","f","o","r","m","a","t">>,
       <<"c","r","i","t","i","c","a","l"," ","f","a","i","l","u","r","e">> >>

\* _is_critical_error without the lower(): the patterns are matched
\* against the error text as written
IsCriticalCaseSensitive(errors) ==
    \E i \in 1..Len(errors) :
        \E p \in 1..Len(critical_patterns) :
            Contains(errors[i], critical_patterns[p])

\* _is_critical_error with all() over the errors in place of any()
IsCriticalAllErrors(errors) ==
    \A i \in 1..Len(errors) :
        \E p \in 1..Len(critical_patterns) :
            Contains(Lower(errors[i]), critical_patterns[p])

\* any(pattern in error.lower() for error in errors for pattern in critical_patterns)
_is_critical_error(errors) ==
    \E i \in 1..Len(errors) :
        \E p \in 1..Len(critical_patterns) :
            Contains(Lower(errors[i]), critical_patterns[p])

\* the loop "for field in required_fields: if field not in output"
RECURSIVE MissingFieldErrors(_, _)
MissingFieldErrors(fields, output) ==
    IF fields = <<>> THEN <<>>
    ELSE (IF Head(fields) \notin DOMAIN output
          THEN << MissingFieldText \o CharsOf(Head(fields)) >>
          ELSE <<>>) \o MissingFieldErrors(Tail(fields), output)

\* the placeholder _attempt_auto_correction stores for a missing field
Placeholder(field) ==
    CASE field = "significance" -> DefaultSignificance
      [] field = "analysis" -> "Auto-generated analysis placeholder"
      [] OTHER -> <<>>

RECURSIVE FillMissing(_, _)
FillMissing(fields, corrected) ==
    IF fields = <<>> THEN corrected
    ELSE FillMissing(Tail(fields),
            IF Head(fields) \notin DOMAIN corrected
               /\ Head(fields) \in {"significance", "analysis", "entities", "relations"}
            THEN Put(corrected, Head(fields), Placeholder(Head(fields)))
            ELSE corrected)

_attempt_auto_correction(agent_id, output) ==
    FillMissing(required_fields(agent_id), output)

\* validate_agent_output raises on a payload that is no dict: the first
\* "field not in output", or output.get, fails on None
ValidateRaises(agent_id, output) ==
    output = NoneVal /\ agent_id \in {"semantic_analysis", "knowledge_graph"}

\* validate_agent_output with the low significance appended to the errors
ValidateSignificanceAsError(agent_id, output, auto_correction_enabled, t) ==
    LET missing == MissingFieldErrors(required_fields(agent_id), output)
        significance == Get(output, "significance", 0)
        entities == Get(output, "entities", <<>>)
        errors ==
            missing \o
            (IF agent_id = "semantic_analysis" /\ significance < MinSignificance
             THEN << LowSignificanceText \o IntToChars(significance) \o LessThanText
                       \o IntToChars(MinSignificance) >>
             ELSE <<>>) \o
            (IF agent_id = "knowledge_graph" /\ Len(entities) < MinEntities
             THEN << InsufficientEntitiesText \o IntToChars(Len(entities)) \o LessThanText
                       \o IntToChars(MinEntities) >>
             ELSE <<>>)
        corrected_output ==
            IF auto_correction_enabled /\ errors # <<>> /\ ~_is_critical_error(errors)
            THEN _attempt_auto_correction(agent_id, output)
            ELSE NoneVal
    IN  [passed |-> errors = <<>>,
         errors |-> errors,
         warnings |-> <<>>,
         corrected |-> Truth(corrected_output),
         corrected_output |-> corrected_output,
         validation_time |-> t]

validate_agent_output(agent_id, output, auto_correction_enabled, t) ==
    LET missing == MissingFieldErrors(required_fields(agent_id), output)
        significance == Get(output, "significance", 0)
        entities == Get(output, "entities", <<>>)
        warnings ==
            IF agent_id = "semantic_analysis" /\ significance < MinSignificance
            THEN << LowSignificanceText \o IntToChars(significance) \o LessThanText
                      \o IntToChars(MinSignificance) >>
            ELSE <<>>
        errors ==
            missing \o
            (IF agent_id = "knowledge_graph" /\ Len(entities) < MinEntities
             THEN << InsufficientEntitiesText \o IntToChars(Len(entities)) \o LessThanText
                       \o IntToChars(MinEntities) >>
             ELSE <<>>)
        corrected_output ==
            IF auto_correction_enabled /\ errors # <<>> /\ ~_is_critical_error(errors)
            THEN _attempt_auto_correction(agent_id, output)
            ELSE NoneVal
    IN  [passed |-> errors = <<>>,
         errors |-> errors,
         warnings |-> warnings,
         corrected |-> Truth(corrected_output),
         corrected_output |-> corrected_output,
         validation_time |-> t]

\* ---- validate_workflow
CountStatus(steps, st) == Cardinality({i \in 1..Len(steps) : steps[i].status = st})

RECURSIVE FailedStepErrors(_)
FailedStepErrors(steps) ==
    IF steps = <<>> THEN <<>>
    ELSE (IF Head(steps).status = "failed"
          THEN << StepFailedText \o CharsOf(Head(steps).agent) \o <<".">>
                    \o CharsOf(Head(steps).action) \o <<" ", "-", " ">>
                    \o ErrorStr(Head(steps).error) >>
          ELSE <<>>) \o FailedStepErrors(Tail(steps))

RECURSIVE TimeoutWarnings(_)
TimeoutWarnings(steps) ==
    IF steps = <<>> THEN <<>>
    ELSE (IF Head(steps).start_time \notin {NoTime, 0}
             /\ Head(steps).end_time \notin {NoTime, 0}
             /\ Head(steps).end_time - Head(steps).start_time > Head(steps).timeout
          THEN << <<"S","t","e","p"," ","t","i","m","e","o","u","t"," ","e","x","c","e","e","d","e","d",":"," ">>
                    \o CharsOf(Head(steps).agent) \o <<".">> \o CharsOf(Head(steps).action)
                    \o <<" ","t","o","o","k"," ">>
                    \o IntToChars(Head(steps).end_time - Head(steps).start_time)
                    \o <<".","0","s"," ",">"," ">>
                    \o IntToChars(Head(steps).timeout) \o <<"s">> >>
          ELSE <<>>) \o TimeoutWarnings(Tail(steps))

\* validate_workflow with completeness 1 for an execution without steps
ValidateWorkflowEmptyComplete(steps, t) ==
    LET completed_steps == CountStatus(steps, "completed")
        total == Len(steps)
        incomplete ==
            IF total = 0 THEN FALSE
            ELSE 10 * completed_steps < MinCompletenessNum * total
        errors ==
            (IF incomplete
             THEN << WorkflowIncompleteText \o Fixed2(completed_steps, total) \o LessThanText
                       \o <<"0", ".", "8">> >>
             ELSE <<>>) \o FailedStepErrors(steps)
    IN  [passed |-> errors = <<>>,
         errors |-> errors,
         warnings |-> TimeoutWarnings(steps),
         completed_steps |-> completed_steps,
         total_steps |-> total,
         failed_steps |-> CountStatus(steps, "failed"),
         validation_time |-> t]

validate_workflow(steps, t) ==
    LET completed_steps == CountStatus(steps, "completed")
        total == Len(steps)
        \* completeness < min_completeness, with completeness = completed / total
        \* (0 when there are no steps) and min_completeness = 0.8
        incomplete ==
            IF total = 0 THEN TRUE
            ELSE 10 * completed_steps < MinCompletenessNum * total
        errors ==
            (IF incomplete
             THEN << WorkflowIncompleteText \o Fixed2(completed_steps, total) \o LessThanText
                       \o <<"0", ".", "8">> >>
             ELSE <<>>) \o FailedStepErrors(steps)
    IN  [passed |-> errors = <<>>,
         errors |-> errors,
         warnings |-> TimeoutWarnings(steps),
         completed_steps |-> completed_steps,
         total_steps |-> total,
         failed_steps |-> CountStatus(steps, "failed"),
         validation_time |-> t]

\* ------------------------------------------------ registry and catalog
\* system.agents: the agents that were enabled and initialized
RegisteredAgents == {"coordinator", "deduplication", "knowledge_graph", "semantic_analysis"}

\* Iteration order of system.agents: agents are inserted in initialization
\* order, the coordinator first and the others by sorted name
AgentOrder == <<"coordinator", "deduplication", "knowledge_graph", "semantic_analysis">>

\* BaseAgent._event_handlers of each registered agent, as far as the
\* catalog below uses them
HasHandler(agent, action) ==
    \/ agent = "coordinator" /\ action \in {"initialize_workflow", "generate_summary"}
    \/ agent = "semantic_analysis" /\ action \in {"analyze_code", "extract_patterns"}
    \/ agent = "knowledge_graph" /\ action \in {"create_entities", "merge_entities"}
    \/ agent = "deduplication" /\ action \in {"merge_entities"}

\* What a handler may return: agents are external collaborators, so the
\* payload is any element of a small set of representative payloads.
HandlerResults(agent, action) ==
    CASE agent = "semantic_analysis" ->
            { [analysis |-> "text", significance |-> 7],
              [analysis |-> "text"],
              [status |-> "ok"] }
      [] agent = "knowledge_graph" ->
            { [entities |-> <<"e1">>, relations |-> <<>>],
              [entities |-> <<>>, relations |-> <<>>],
              NoneVal }
      [] OTHER -> { [status |-> "ok"] }

\* Workflow definitions handed to execute_workflow (name, steps, config).
\* A step spec without "timeout" and a config without a key take the
\* defaults of the code.
WorkflowDef(name) ==
    CASE name = "three_steps" ->
            [steps |-> << [agent |-> "coordinator", action |-> "initialize_workflow", timeout |-> 30],
                          [agent |-> "semantic_analysis", action |-> "analyze_code"],
                          [agent |-> "coordinator", action |-> "generate_summary", timeout |-> 30] >>,
             config |-> <<>>]
      [] name = "unregistered_agent" ->
            [steps |-> << [agent |-> "coordinator", action |-> "initialize_workflow", timeout |-> 30],
                          [agent |-> "web_search", action |-> "gather_context"],
                          [agent |-> "coordinator", action |-> "generate_summary", timeout |-> 30] >>,
             config |-> <<>>]
      [] name = "qa_strict" ->
            [steps |-> << [agent |-> "semantic_analysis", action |-> "analyze_code"],
                          [agent |-> "knowledge_graph", action |-> "create_entities", timeout |-> 30] >>,
             config |-> [qa_validation |-> TRUE, allow_partial_completion |-> FALSE]]
      [] name = "qa_partial" ->
            [steps |-> << [agent |-> "semantic_analysis", action |-> "analyze_code"],
                          [agent |-> "knowledge_graph", action |-> "create_entities", timeout |-> 30],
                          [agent |-> "coordinator", action |-> "generate_summary", timeout |-> 30] >>,
             config |-> [qa_validation |-> TRUE, allow_partial_completion |-> TRUE]]
      [] name = "short_deadline" ->
            [steps |-> << [agent |-> "semantic_analysis", action |-> "analyze_code", timeout |-> 10],
                          [agent |-> "knowledge_graph", action |-> "create_entities", timeout |-> 10] >>,
             config |-> [max_duration |-> 1, retry_failed_steps |-> TRUE, max_retries |-> 2]]
      [] name = "no_steps" ->
            [steps |-> <<>>, config |-> <<>>]
      [] name = "one_step" ->
            [steps |-> << [agent |-> "semantic_analysis", action |-> "analyze_code", timeout |-> 10] >>,
             config |-> <<>>]
      [] name = "absent_handler" ->
            [steps |-> << [agent |-> "semantic_analysis", action |-> "create_entities", timeout |-> 10],
                          [agent |-> "coordinator", action |-> "generate_summary", timeout |-> 30] >>,
             config |-> <<>>]
      [] name = "qa_absent_handler" ->
            [steps |-> << [agent |-> "semantic_analysis", action |-> "create_entities", timeout |-> 10],
                          [agent |-> "coordinator", action |-> "generate_summary", timeout |-> 30] >>,
             config |-> [qa_validation |-> TRUE, allow_partial_completion |-> TRUE]]

\* a catalog entry: name, description, ordered step specs and config bag
CatalogEntry(name) ==
    [name |-> name,
     description |-> <<"description of", name>>,
     steps |-> WorkflowDef(name).steps,
     config |-> WorkflowDef(name).config]

WorkflowNames ==
    {"three_steps", "unregistered_agent", "qa_strict", "qa_partial", "short_deadline",
     "no_steps"}

\* the parameters of every call (their content is opaque to the engine)
Parameters == [path |-> "."]

\* --------------------------------------------------------------- state
VARIABLES
    now,                \* time.time()
    running,            \* BaseAgent.running of the coordinator
    workflows,          \* the catalog: workflow definitions by name
    qa_config,          \* QualityAssurance.config
    executions,         \* the WorkflowExecution objects, by id
    active_workflows,   \* keys of CoordinatorAgent.active_workflows
    workflow_history,   \* CoordinatorAgent.workflow_history (ids of the objects)
    task,               \* run task of each execution: where it is suspended
    monitor,            \* the _workflow_monitor task
    reply               \* what the handler called in the last step returned or raised

vars == <<now, running, workflows, qa_config, executions, active_workflows,
          workflow_history, task, monitor, reply>>

Ids == 1..MaxExec

\* no handler was called in the last step
NoReply == [op |-> "none"]

\* ------------------------------------------------------ execute_workflow
NewStep(spec) ==
    [agent |-> spec.agent,
     action |-> spec.action,
     timeout |-> Get(spec, "timeout", DefaultStepTimeout),
     status |-> "pending",
     result |-> NoneVal,
     error |-> NoError,
     start_time |-> NoTime,
     end_time |-> NoTime]

\* NewExecution with the status set to RUNNING at creation
NewExecutionRunning(id, name, t) ==
    [id |-> id,
     name |-> name,
     steps |-> [i \in 1..Len(workflows[name].steps) |-> NewStep(workflows[name].steps[i])],
     status |-> "running",
     parameters |-> Parameters,
     config |-> workflows[name].config,
     start_time |-> t,
     end_time |-> NoTime,
     current_step_index |-> 0,
     results |-> <<>>,
     qa_reports |-> <<>>]

\* WorkflowExecution(...) of execute_workflow with the steps converted
NewExecution(id, name, t) ==
    [id |-> id,
     name |-> name,
     steps |-> [i \in 1..Len(workflows[name].steps) |-> NewStep(workflows[name].steps[i])],
     status |-> "pending",
     parameters |-> Parameters,
     config |-> workflows[name].config,
     start_time |-> t,
     end_time |-> NoTime,
     current_step_index |-> 0,
     results |-> <<>>,
     qa_reports |-> <<>>]

\* str(uuid.uuid4()): an id no earlier execution has
FreshId == Cardinality(DOMAIN executions) + 1

\* execute_workflow that writes the default max_duration into the config it
\* was handed, which is the config object of the catalog entry
ExecuteWorkflowSetsDefault(name) ==
    /\ executions' = [id \in DOMAIN executions \cup {FreshId} |->
                        IF id = FreshId
                        THEN [NewExecution(FreshId, name, now) EXCEPT
                                 !.config = Put(@, "max_duration",
                                                Get(@, "max_duration", DefaultMaxDuration))]
                        ELSE executions[id]]
    /\ workflows' = [workflows EXCEPT
                        ![name].config = Put(@, "max_duration",
                                             Get(@, "max_duration", DefaultMaxDuration))]
    /\ active_workflows' = active_workflows \cup {FreshId}
    /\ task' = [id \in DOMAIN task \cup {FreshId} |->
                        IF id = FreshId THEN [pc |-> "scheduled", step_data |-> NoneVal]
                        ELSE task[id]]
    /\ reply' = [op |-> "execute_workflow", workflow_name |-> name,
                 workflow_id |-> FreshId,
                 status |-> executions'[FreshId].status,
                 steps |-> Len(executions'[FreshId].steps)]
    /\ UNCHANGED <<now, running, qa_config, workflow_history, monitor>>

execute_workflow(name) ==
    /\ executions' = [id \in DOMAIN executions \cup {FreshId} |->
                        IF id = FreshId THEN NewExecution(FreshId, name, now)
                        ELSE executions[id]]
    /\ active_workflows' = active_workflows \cup {FreshId}
    /\ task' = [id \in DOMAIN task \cup {FreshId} |->
                        IF id = FreshId THEN [pc |-> "scheduled", step_data |-> NoneVal]
                        ELSE task[id]]
    /\ reply' = [op |-> "execute_workflow", workflow_name |-> name,
                 workflow_id |-> FreshId,
                 status |-> executions'[FreshId].status,
                 steps |-> Len(executions'[FreshId].steps)]
    /\ UNCHANGED <<now, running, workflows, qa_config, workflow_history, monitor>>

\* ------------------------------------------------------------ run task
\* f"step_{i}_{step.agent}_{step.action}"
StepKey(i, step) ==
    <<"s","t","e","p","_">> \o IntToChars(i) \o <<"_">> \o CharsOf(step.agent)
        \o <<"_">> \o CharsOf(step.action)

SetStep(x, i, step) == [x EXCEPT !.steps[i + 1] = step]

\* the "except Exception" of _execute_workflow_steps: the run is aborted,
\* the execution is failed where it is and _complete_workflow is skipped
\* AbortRun that falls through to the finalization instead of skipping it
AbortRunFinalizes(x, t) ==
    LET final_qa == validate_workflow(x.steps, t)
    IN  [x |-> [x EXCEPT !.end_time = t,
                         !.qa_reports = Append(@, final_qa),
                         !.status = IF final_qa.passed THEN "completed" ELSE "failed"],
         pc |-> "done", step_data |-> NoneVal, finalized |-> TRUE]

\* AbortRun without "execution.status = WorkflowStatus.FAILED"
AbortRunKeepsStatus(x, t) ==
    [x |-> [x EXCEPT !.end_time = t],
     pc |-> "done", step_data |-> NoneVal, finalized |-> FALSE]

AbortRun(x, t) ==
    [x |-> [x EXCEPT !.status = "failed", !.end_time = t],
     pc |-> "done", step_data |-> NoneVal, finalized |-> FALSE]

\* the two "except" clauses of _execute_step, followed by AbortRun
FailStep(x, i, message, t) ==
    AbortRun(SetStep(x, i, [x.steps[i + 1] EXCEPT
                                !.status = "failed", !.error = message, !.end_time = t]), t)

\* _complete_workflow without the final validation: no report is appended
\* and the execution is completed whatever its steps
CompleteWorkflowNoReport(x, t) ==
    [x |-> [x EXCEPT !.end_time = t, !.status = "completed"],
     pc |-> "done", step_data |-> NoneVal, finalized |-> TRUE]

\* _complete_workflow with the final status taken from the negated report
CompleteWorkflowInverted(x, t) ==
    LET final_qa == validate_workflow(x.steps, t)
    IN  [x |-> [x EXCEPT !.end_time = t,
                         !.qa_reports = Append(@, final_qa),
                         !.status = IF final_qa.passed THEN "failed" ELSE "completed"],
         pc |-> "done", step_data |-> NoneVal, finalized |-> TRUE]

\* _complete_workflow, up to the move to history
_complete_workflow(x, t) ==
    LET final_qa == validate_workflow(x.steps, t)
    IN  [x |-> [x EXCEPT !.end_time = t,
                         !.qa_reports = Append(@, final_qa),
                         !.status = IF final_qa.passed THEN "completed" ELSE "failed"],
         pc |-> "done", step_data |-> NoneVal, finalized |-> TRUE]

\* BeginStep with the agent resolved only after the await: the call is
\* dispatched whether or not the agent is registered
BeginStepLateLookup(x, i, t) ==
    LET step == x.steps[i + 1]
        started == [step EXCEPT !.status = "running", !.start_time = t]
        x1 == SetStep([x EXCEPT !.current_step_index = i], i, started)
    IN  [x |-> x1, pc |-> "awaiting",
         step_data |-> [action |-> step.action,
                        workflow_id |-> x.id,
                        parameters |-> x.parameters,
                        previous_results |-> x.results],
         finalized |-> FALSE]

\* BeginStep without "execution.current_step_index = i"
BeginStepKeepsIndex(x, i, t) ==
    LET step == x.steps[i + 1]
        started == [step EXCEPT !.status = "running", !.start_time = t]
        x1 == SetStep(x, i, started)
    IN  IF step.agent \notin RegisteredAgents
        THEN FailStep(x1, i, AgentNotFoundText \o CharsOf(step.agent), t)
        ELSE [x |-> x1, pc |-> "awaiting",
              step_data |-> [action |-> step.action,
                             workflow_id |-> x.id,
                             parameters |-> x.parameters,
                             previous_results |-> x.results],
              finalized |-> FALSE]

\* BeginStep with a new, empty previous_results in the step data
BeginStepNoPrevious(x, i, t) ==
    LET step == x.steps[i + 1]
        started == [step EXCEPT !.status = "running", !.start_time = t]
        x1 == SetStep([x EXCEPT !.current_step_index = i], i, started)
    IN  IF step.agent \notin RegisteredAgents
        THEN FailStep(x1, i, AgentNotFoundText \o CharsOf(step.agent), t)
        ELSE [x |-> x1, pc |-> "awaiting",
              step_data |-> [action |-> step.action,
                             workflow_id |-> x.id,
                             parameters |-> x.parameters,
                             previous_results |-> <<>>],
              finalized |-> FALSE]

\* Top of a loop iteration and _execute_step up to its await: either the
\* agent is missing and the run is aborted, or the call is dispatched and
\* the task is suspended in asyncio.wait_for.
BeginStep(x, i, t) ==
    LET step == x.steps[i + 1]
        started == [step EXCEPT !.status = "running", !.start_time = t]
        x1 == SetStep([x EXCEPT !.current_step_index = i], i, started)
    IN  IF step.agent \notin RegisteredAgents
        THEN FailStep(x1, i, AgentNotFoundText \o CharsOf(step.agent), t)
        ELSE [x |-> x1, pc |-> "awaiting",
              step_data |-> [action |-> step.action,
                             workflow_id |-> x.id,
                             parameters |-> x.parameters,
                             previous_results |-> x.results],
              finalized |-> FALSE]

\* NextIteration that passes over step i + 1, marking it skipped
NextIterationSkips(x, i, t) ==
    IF i + 1 < Len(x.steps)
    THEN LET x1 == SetStep(x, i + 1, [x.steps[i + 2] EXCEPT !.status = "skipped"])
         IN  IF i + 2 < Len(x.steps) THEN BeginStep(x1, i + 2, t) ELSE _complete_workflow(x1, t)
    ELSE _complete_workflow(x, t)

\* the loop goes on with step i + 1, or ends and the workflow is completed
NextIteration(x, i, t) ==
    IF i + 1 < Len(x.steps) THEN BeginStep(x, i + 1, t) ELSE _complete_workflow(x, t)

\* _execute_workflow_steps from its first line to the first suspension
StartRun(x, t) ==
    LET x1 == [x EXCEPT !.status = "running"]
    IN  IF Len(x1.steps) = 0 THEN _complete_workflow(x1, t) ELSE BeginStep(x1, 0, t)

\* ResumeWithResult with the result stored before the QA validation, so
\* that a step failed by the validation has its entry
ResumeWithResultStoresFirst(x, i, result, auto_correction_enabled, t) ==
    LET step == [x.steps[i + 1] EXCEPT
                    !.status = "completed", !.result = result, !.end_time = t]
        x1 == SetStep(x, i, step)
        qa == Get(x.config, "qa_validation", FALSE)
        partial == Get(x.config, "allow_partial_completion", FALSE)
        qa_report == validate_agent_output(step.agent, result, auto_correction_enabled, t)
        stored == [x1 EXCEPT !.results = Put(@, StepKey(i, step), result)]
        x2 == IF qa THEN [stored EXCEPT !.qa_reports = Append(@, qa_report)] ELSE stored
        step_result == IF qa /\ qa_report.corrected THEN qa_report.corrected_output ELSE result
        x3 == [x2 EXCEPT !.results = Put(@, StepKey(i, step), step_result)]
    IN  IF qa /\ ValidateRaises(step.agent, result)
        THEN AbortRun(stored, t)
        ELSE IF qa /\ ~qa_report.passed /\ ~qa_report.corrected /\ ~partial
        THEN _complete_workflow(
                SetStep(x2, i, [step EXCEPT
                    !.status = "failed",
                    !.error = QAFailedText \o ListRepr(qa_report.errors)]), t)
        ELSE IF x3.steps[i + 1].status = "failed" /\ ~partial
        THEN _complete_workflow(x3, t)
        ELSE NextIteration(x3, i, t)

\* ResumeWithResult with the step report appended whether or not
\* qa_validation is set
ResumeWithResultAlwaysReports(x, i, result, auto_correction_enabled, t) ==
    LET step == [x.steps[i + 1] EXCEPT
                    !.status = "completed", !.result = result, !.end_time = t]
        x1 == SetStep(x, i, step)
        qa == Get(x.config, "qa_validation", FALSE)
        partial == Get(x.config, "allow_partial_completion", FALSE)
        raises == ValidateRaises(step.agent, result)
        qa_report == validate_agent_output(step.agent, result, auto_correction_enabled, t)
        x2 == IF raises THEN x1 ELSE [x1 EXCEPT !.qa_reports = Append(@, qa_report)]
        step_result == IF qa /\ qa_report.corrected THEN qa_report.corrected_output ELSE result
        x3 == [x2 EXCEPT !.results = Put(@, StepKey(i, step), step_result)]
    IN  IF qa /\ raises
        THEN AbortRun(x1, t)
        ELSE IF qa /\ ~qa_report.passed /\ ~qa_report.corrected /\ ~partial
        THEN _complete_workflow(
                SetStep(x2, i, [step EXCEPT
                    !.status = "failed",
                    !.error = QAFailedText \o ListRepr(qa_report.errors)]), t)
        ELSE IF x3.steps[i + 1].status = "failed" /\ ~partial
        THEN _complete_workflow(x3, t)
        ELSE NextIteration(x3, i, t)

\* ResumeWithResult with the correction ignored: a report that did not pass
\* fails the step (or, with partial completion, stores the raw result)
ResumeWithResultNoCorrection(x, i, result, auto_correction_enabled, t) ==
    LET step == [x.steps[i + 1] EXCEPT
                    !.status = "completed", !.result = result, !.end_time = t]
        x1 == SetStep(x, i, step)
        qa == Get(x.config, "qa_validation", FALSE)
        partial == Get(x.config, "allow_partial_completion", FALSE)
        qa_report == validate_agent_output(step.agent, result, auto_correction_enabled, t)
        x2 == IF qa THEN [x1 EXCEPT !.qa_reports = Append(@, qa_report)] ELSE x1
        x3 == [x2 EXCEPT !.results = Put(@, StepKey(i, step), result)]
    IN  IF qa /\ ValidateRaises(step.agent, result)
        THEN AbortRun(x1, t)
        ELSE IF qa /\ ~qa_report.passed /\ ~partial
        THEN _complete_workflow(
                SetStep(x2, i, [step EXCEPT
                    !.status = "failed",
                    !.error = QAFailedText \o ListRepr(qa_report.errors)]), t)
        ELSE NextIteration(x3, i, t)

\* ResumeWithResult with allow_partial_completion ignored: a failed QA
\* validation without a correction always fails the step and ends the loop
ResumeWithResultAlwaysStrict(x, i, result, auto_correction_enabled, t) ==
    LET step == [x.steps[i + 1] EXCEPT
                    !.status = "completed", !.result = result, !.end_time = t]
        x1 == SetStep(x, i, step)
        qa == Get(x.config, "qa_validation", FALSE)
        qa_report == validate_agent_output(step.agent, result, auto_correction_enabled, t)
        x2 == IF qa THEN [x1 EXCEPT !.qa_reports = Append(@, qa_report)] ELSE x1
        step_result == IF qa /\ qa_report.corrected THEN qa_report.corrected_output ELSE result
        x3 == [x2 EXCEPT !.results = Put(@, StepKey(i, step), step_result)]
    IN  IF qa /\ ValidateRaises(step.agent, result)
        THEN AbortRun(x1, t)
        ELSE IF qa /\ ~qa_report.passed /\ ~qa_report.corrected
        THEN _complete_workflow(
                SetStep(x2, i, [step EXCEPT
                    !.status = "failed",
                    !.error = QAFailedText \o ListRepr(qa_report.errors)]), t)
        ELSE NextIteration(x3, i, t)

\* ResumeWithResult with "continue" in place of the "break" after a failed
\* QA validation: the loop goes on with the next step
ResumeWithResultContinue(x, i, result, auto_correction_enabled, t) ==
    LET step == [x.steps[i + 1] EXCEPT
                    !.status = "completed", !.result = result, !.end_time = t]
        x1 == SetStep(x, i, step)
        qa == Get(x.config, "qa_validation", FALSE)
        partial == Get(x.config, "allow_partial_completion", FALSE)
        qa_report == validate_agent_output(step.agent, result, auto_correction_enabled, t)
        x2 == IF qa THEN [x1 EXCEPT !.qa_reports = Append(@, qa_report)] ELSE x1
        step_result == IF qa /\ qa_report.corrected THEN qa_report.corrected_output ELSE result
        x3 == [x2 EXCEPT !.results = Put(@, StepKey(i, step), step_result)]
    IN  IF qa /\ ValidateRaises(step.agent, result)
        THEN AbortRun(x1, t)
        ELSE IF qa /\ ~qa_report.passed /\ ~qa_report.corrected /\ ~partial
        THEN NextIteration(
                SetStep(x2, i, [step EXCEPT
                    !.status = "failed",
                    !.error = QAFailedText \o ListRepr(qa_report.errors)]), i, t)
        ELSE NextIteration(x3, i, t)

\* The agent call of step i returned result: rest of _execute_step, then
\* the rest of the loop body (QA validation, result storage) and on to the
\* next suspension.
ResumeWithResult(x, i, result, auto_correction_enabled, t) ==
    LET step == [x.steps[i + 1] EXCEPT
                    !.status = "completed", !.result = result, !.end_time = t]
        x1 == SetStep(x, i, step)
        qa == Get(x.config, "qa_validation", FALSE)
        partial == Get(x.config, "allow_partial_completion", FALSE)
        qa_report == validate_agent_output(step.agent, result, auto_correction_enabled, t)
        x2 == IF qa THEN [x1 EXCEPT !.qa_reports = Append(@, qa_report)] ELSE x1
        step_result == IF qa /\ qa_report.corrected THEN qa_report.corrected_output ELSE result
        x3 == [x2 EXCEPT !.results = Put(@, StepKey(i, step), step_result)]
    IN  IF qa /\ ValidateRaises(step.agent, result)
        THEN AbortRun(x1, t)
        ELSE IF qa /\ ~qa_report.passed /\ ~qa_report.corrected /\ ~partial
        THEN _complete_workflow(
                SetStep(x2, i, [step EXCEPT
                    !.status = "failed",
                    !.error = QAFailedText \o ListRepr(qa_report.errors)]), t)
        ELSE IF x3.steps[i + 1].status = "failed" /\ ~partial
        THEN _complete_workflow(x3, t)
        ELSE NextIteration(x3, i, t)

\* what the awaited agent.handle_event(step.action, step_data) returns
DispatchResults(step) ==
    IF HasHandler(step.agent, step.action)
    THEN HandlerResults(step.agent, step.action)
    ELSE {NoneVal}

CurrentStep(x) == x.steps[x.current_step_index + 1]

\* instant at which asyncio.wait_for gives up on the step in flight
Deadline(x) == CurrentStep(x).start_time + CurrentStep(x).timeout

\* Commit with the "del self.active_workflows[execution.id]" of
\* _complete_workflow left out
CommitKeepActive(id, r) ==
    /\ executions' = [executions EXCEPT ![id] = r.x]
    /\ task' = [task EXCEPT ![id] = [pc |-> r.pc, step_data |-> r.step_data]]
    /\ workflow_history' =
            IF r.finalized THEN Append(workflow_history, id) ELSE workflow_history
    /\ active_workflows' = active_workflows
    /\ reply' = NoReply
    /\ UNCHANGED <<now, running, workflows, qa_config, monitor>>

\* a run outcome r of execution id is written back; a finalized run has
\* appended the execution to the history and left the active table
\* Commit with a results dict shared by all executions
CommitSharedResults(id, r) ==
    /\ executions' = [b \in DOMAIN executions |->
                        IF b = id THEN r.x
                        ELSE [executions[b] EXCEPT !.results = r.x.results]]
    /\ task' = [task EXCEPT ![id] = [pc |-> r.pc, step_data |-> r.step_data]]
    /\ workflow_history' =
            IF r.finalized THEN Append(workflow_history, id) ELSE workflow_history
    /\ active_workflows' =
            IF r.finalized THEN active_workflows \ {id} ELSE active_workflows
    /\ reply' = NoReply
    /\ UNCHANGED <<now, running, workflows, qa_config, monitor>>

Commit(id, r) ==
    /\ executions' = [executions EXCEPT ![id] = r.x]
    /\ task' = [task EXCEPT ![id] = [pc |-> r.pc, step_data |-> r.step_data]]
    /\ workflow_history' =
            IF r.finalized THEN Append(workflow_history, id) ELSE workflow_history
    /\ active_workflows' =
            IF r.finalized THEN active_workflows \ {id} ELSE active_workflows
    /\ reply' = NoReply
    /\ UNCHANGED <<now, running, workflows, qa_config, monitor>>

\* the event loop runs the task created by execute_workflow for the first time
TaskStart(id) ==
    /\ id \in DOMAIN task
    /\ task[id].pc = "scheduled"
    /\ Commit(id, StartRun(executions[id], now))

\* the agent call in flight returns
AgentReturns(id) ==
    /\ id \in DOMAIN task
    /\ task[id].pc = "awaiting"
    /\ \E result \in DispatchResults(CurrentStep(executions[id])) :
          Commit(id, ResumeWithResult(executions[id], executions[id].current_step_index,
                                      result, qa_config.auto_correction_enabled, now))

\* the handler of the agent call in flight raises
AgentRaises(id) ==
    /\ id \in DOMAIN task
    /\ task[id].pc = "awaiting"
    /\ HasHandler(CurrentStep(executions[id]).agent, CurrentStep(executions[id]).action)
    /\ Commit(id, FailStep(executions[id], executions[id].current_step_index,
                           HandlerErrorText, now))

\* StepTimeout with the retry the workflow config asks for: a step that
\* timed out is dispatched again when retry_failed_steps is set
StepTimeoutRetry(id) ==
    /\ id \in DOMAIN task
    /\ task[id].pc = "awaiting"
    /\ now >= Deadline(executions[id])
    /\ LET x == executions[id]
           i == x.current_step_index
           failed == FailStep(x, i, StepTimeoutText \o IntToChars(CurrentStep(x).timeout)
                                        \o <<"s">>, now)
       IN  IF Get(x.config, "retry_failed_steps", FALSE)
           THEN Commit(id, BeginStep(failed.x, i, now))
           ELSE Commit(id, failed)

\* asyncio.wait_for raises TimeoutError
StepTimeout(id) ==
    /\ id \in DOMAIN task
    /\ task[id].pc = "awaiting"
    /\ now >= Deadline(executions[id])
    /\ Commit(id, FailStep(executions[id], executions[id].current_step_index,
                           StepTimeoutText \o IntToChars(CurrentStep(executions[id]).timeout)
                               \o <<"s">>, now))

\* _handle_cancel_workflow without the move to history
CancelStatusOnly(workflow_id) ==
    /\ workflow_id \in active_workflows
    /\ executions' = [executions EXCEPT ![workflow_id].status = "cancelled",
                                        ![workflow_id].end_time = now]
    /\ reply' = [op |-> "cancel_workflow", workflow_id |-> workflow_id,
                 status |-> "cancelled"]
    /\ UNCHANGED <<now, running, workflows, qa_config, active_workflows,
                   workflow_history, task, monitor>>

\* ------------------------------------------------------ cancel_workflow
\* _handle_cancel_workflow that also cancels the run task of the execution
CancelStopsTask(workflow_id) ==
    IF workflow_id \in active_workflows
    THEN /\ executions' = [executions EXCEPT ![workflow_id].status = "cancelled",
                                             ![workflow_id].end_time = now]
         /\ workflow_history' = Append(workflow_history, workflow_id)
         /\ active_workflows' = active_workflows \ {workflow_id}
         /\ task' = [task EXCEPT ![workflow_id] = [pc |-> "done", step_data |-> NoneVal]]
         /\ reply' = [op |-> "cancel_workflow", workflow_id |-> workflow_id,
                      status |-> "cancelled"]
         /\ UNCHANGED <<now, running, workflows, qa_config, monitor>>
    ELSE /\ reply' = [op |-> "cancel_workflow", workflow_id |-> workflow_id,
                      error |-> "Active workflow not found"]
         /\ UNCHANGED <<now, running, workflows, qa_config, executions, active_workflows,
                        workflow_history, task, monitor>>

\* _handle_cancel_workflow that accepts every execution it can find, in
\* the active table or not
CancelAnyExecution(workflow_id) ==
    IF workflow_id \in DOMAIN executions
    THEN /\ executions' = [executions EXCEPT ![workflow_id].status = "cancelled",
                                             ![workflow_id].end_time = now]
         /\ workflow_history' = Append(workflow_history, workflow_id)
         /\ active_workflows' = active_workflows \ {workflow_id}
         /\ reply' = [op |-> "cancel_workflow", workflow_id |-> workflow_id,
                      status |-> "cancelled"]
         /\ UNCHANGED <<now, running, workflows, qa_config, task, monitor>>
    ELSE /\ reply' = [op |-> "cancel_workflow", workflow_id |-> workflow_id,
                      error |-> "Active workflow not found"]
         /\ UNCHANGED <<now, running, workflows, qa_config, executions, active_workflows,
                        workflow_history, task, monitor>>

_handle_cancel_workflow(workflow_id) ==
    IF workflow_id \in active_workflows
    THEN /\ executions' = [executions EXCEPT ![workflow_id].status = "cancelled",
                                             ![workflow_id].end_time = now]
         /\ workflow_history' = Append(workflow_history, workflow_id)
         /\ active_workflows' = active_workflows \ {workflow_id}
         /\ reply' = [op |-> "cancel_workflow", workflow_id |-> workflow_id,
                      status |-> "cancelled"]
         /\ UNCHANGED <<now, running, workflows, qa_config, task, monitor>>
    ELSE /\ reply' = [op |-> "cancel_workflow", workflow_id |-> workflow_id,
                      error |-> "Active workflow not found"]
         /\ UNCHANGED <<now, running, workflows, qa_config, executions, active_workflows,
                        workflow_history, task, monitor>>

\* ------------------------------------------------------ _workflow_monitor
\* Overdue with the configured max_duration ignored: the default applies
\* to every execution
OverdueDefaultOnly(x, current_time) ==
    /\ x.start_time \notin {NoTime, 0}
    /\ (current_time - x.start_time) > DefaultMaxDuration

\* Overdue with ">=" in place of ">"
OverdueAtLimit(x, current_time) ==
    /\ x.start_time \notin {NoTime, 0}
    /\ (current_time - x.start_time) >= Get(x.config, "max_duration", DefaultMaxDuration)

\* execution.start_time and (current_time - execution.start_time) > max_duration
Overdue(x, current_time) ==
    /\ x.start_time \notin {NoTime, 0}
    /\ (current_time - x.start_time) > Get(x.config, "max_duration", DefaultMaxDuration)

\* list(self.active_workflows.items()): the dict keeps insertion order, and
\* ids are handed out in creation order
RECURSIVE InsertionOrder(_)
InsertionOrder(S) ==
    IF S = {} THEN <<>>
    ELSE LET first == CHOOSE a \in S : \A b \in S : a <= b
         IN  <<first>> \o InsertionOrder(S \ {first})

\* TrimHistory with the comparison turned around: the list is never cut
TrimHistoryNever(history) ==
    history

\* TrimHistory with the slice [:max_history]: the newest entries are cut
TrimHistoryOldest(history) ==
    IF Len(history) > max_history
    THEN SubSeq(history, 1, max_history)
    ELSE history

\* self.workflow_history[-max_history:] when the list is longer than max_history
TrimHistory(history) ==
    IF Len(history) > max_history
    THEN SubSeq(history, Len(history) - max_history + 1, Len(history))
    ELSE history

\* one pass of the loop body: force-fail the overdue executions, trim the
\* history, go to sleep
MonitorSweep ==
    /\ monitor.pc = "sleeping"
    /\ now >= monitor.wake
    /\ running
    /\ LET overdue == {id \in active_workflows : Overdue(executions[id], now)}
       IN  /\ executions' = [id \in DOMAIN executions |->
                                IF id \in overdue
                                THEN [executions[id] EXCEPT !.status = "failed", !.end_time = now]
                                ELSE executions[id]]
           /\ workflow_history' = TrimHistory(workflow_history \o InsertionOrder(overdue))
           /\ active_workflows' = active_workflows \ overdue
    /\ monitor' = [pc |-> "sleeping", wake |-> now + MonitorSleep]
    /\ reply' = NoReply
    /\ UNCHANGED <<now, running, workflows, qa_config, task>>

\* "while self.running" is false when the monitor wakes up: the task ends
MonitorExit ==
    /\ monitor.pc = "sleeping"
    /\ now >= monitor.wake
    /\ ~running
    /\ monitor' = [pc |-> "stopped", wake |-> monitor.wake]
    /\ reply' = NoReply
    /\ UNCHANGED <<now, running, workflows, qa_config, executions, active_workflows,
                   workflow_history, task>>

\* ---------------------------------------------------------------- shutdown
\* shutdown that appends the executions it cancels to the history
ShutdownArchives ==
    /\ running
    /\ executions' = [id \in DOMAIN executions |->
                        IF id \in active_workflows
                        THEN [executions[id] EXCEPT !.status = "cancelled", !.end_time = now]
                        ELSE executions[id]]
    /\ workflow_history' = workflow_history \o InsertionOrder(active_workflows)
    /\ active_workflows' = {}
    /\ running' = FALSE
    /\ reply' = NoReply
    /\ UNCHANGED <<now, workflows, qa_config, task, monitor>>

\* BaseAgent.shutdown: on_shutdown, then running = False
shutdown ==
    /\ running
    /\ executions' = [id \in DOMAIN executions |->
                        IF id \in active_workflows
                        THEN [executions[id] EXCEPT !.status = "cancelled", !.end_time = now]
                        ELSE executions[id]]
    /\ active_workflows' = {}
    /\ running' = FALSE
    /\ reply' = NoReply
    /\ UNCHANGED <<now, workflows, qa_config, workflow_history, task, monitor>>

\* -------------------------------------------------------------------- time
\* the instants at which a timer of the event loop expires
Timers ==
    (IF monitor.pc = "sleeping" THEN {monitor.wake} ELSE {})
    \cup {Deadline(executions[id]) : id \in {i \in DOMAIN task : task[i].pc = "awaiting"}}

\* Time passes until the next timer expires, as long as that is not after
\* limit.  A timer that has expired is served before time passes again.
TickUntil(limit) ==
    /\ Timers # {}
    /\ \A d \in Timers : d > now
    /\ LET next == CHOOSE d \in Timers : \A o \in Timers : d <= o
       IN  /\ next <= limit
           /\ now' = next
    /\ reply' = NoReply
    /\ UNCHANGED <<running, workflows, qa_config, executions, active_workflows,
                   workflow_history, task, monitor>>

Tick == TickUntil(MaxTime)

\* ----------------------------------------------------------- specifications
\* seconds left of the monitor's sleep in the initial state
InitialPhases == {0, 1, 4, 11}

\* The coordinator is initialized and idle: no execution was created yet,
\* the monitor is somewhere in its cycle (phase seconds before its next
\* sweep), and callers use the definitions of one of the catalogs.
InitWith(catalogs, phases) ==
    /\ now = StartClock
    /\ running = TRUE
    /\ workflows \in {[name \in catalog |-> CatalogEntry(name)] : catalog \in catalogs}
    /\ qa_config = [auto_correction_enabled |-> TRUE]
    /\ executions = <<>>
    /\ active_workflows = {}
    /\ workflow_history = <<>>
    /\ task = <<>>
    /\ monitor \in {[pc |-> "sleeping", wake |-> StartClock + p] : p \in phases}
    /\ reply = NoReply

\* what the event loop runs on its own: run tasks, timers, the monitor
Engine ==
    \/ \E id \in DOMAIN task : TaskStart(id)
    \/ \E id \in DOMAIN task : AgentReturns(id)
    \/ \E id \in DOMAIN task : AgentRaises(id)
    \/ \E id \in DOMAIN task : StepTimeout(id)
    \/ MonitorSweep
    \/ Tick

\* callers cancel executions that are in the active table
CancelActive ==
    \E id \in active_workflows : running /\ _handle_cancel_workflow(id)

\* ---- Spec: up to MaxExec executions in flight at once
ConcurrentCatalogs == { {"three_steps"}, {"short_deadline"}, {"qa_strict"} }

Init == InitWith(ConcurrentCatalogs, {4})

Next ==
    \/ \E name \in DOMAIN workflows : running /\ FreshId <= MaxExec /\ execute_workflow(name)
    \/ CancelActive
    \/ Engine

Spec == Init /\ [][Next]_vars

\* ---- SpecSweep: executions of different ages and limits meet a sweep
\* callers start workflows with a limit of 1 s and with the default limit;
\* the first sweep comes 1 s or 4 s after the start
SweepCatalog == {"short_deadline", "one_step"}

SweepPhases == {1, 4}

InitSweep == InitWith({SweepCatalog}, SweepPhases)

SpecSweep == InitSweep /\ [][Next]_vars

\* ---- SpecSolo: one execution of any definition, any phase of the monitor
InitSolo == InitWith({WorkflowNames}, InitialPhases)

NextSolo ==
    \/ \E name \in DOMAIN workflows : running /\ executions = <<>> /\ execute_workflow(name)
    \/ CancelActive
    \/ Engine

SpecSolo == InitSolo /\ [][NextSolo]_vars

\* ---- SpecEntry: callers ask for workflows by name, known or not
\* names no catalog holds
UnknownNames == {"full-analysis", "simple-analysis", "quick-analysis", "my-workflow"}

\* a request that raises before an execution is created
RequestRaises(workflow_name, exception) ==
    /\ reply' = [op |-> "execute_workflow", workflow_name |-> workflow_name,
                 raised |-> exception]
    /\ UNCHANGED <<now, running, workflows, qa_config, executions, active_workflows,
                   workflow_history, task, monitor>>

\* ---- SpecClient: callers cancel and query by any id, and shut down
\* "(b - a) if a and b else None"
Duration(a, b) ==
    IF a \notin {NoTime, 0} /\ b \notin {NoTime, 0} THEN b - a ELSE NoneVal

\* the dict get_workflow_status returns for execution x
StatusOf(workflow_id, x) ==
    [workflow_id |-> workflow_id,
     name |-> x.name,
     status |-> x.status,
     current_step |-> x.current_step_index,
     total_steps |-> Len(x.steps),
     start_time |-> x.start_time,
     end_time |-> x.end_time,
     duration |-> Duration(x.start_time, x.end_time),
     steps |-> [k \in 1..Len(x.steps) |->
                  [agent |-> x.steps[k].agent,
                   action |-> x.steps[k].action,
                   status |-> x.steps[k].status,
                   duration |-> Duration(x.steps[k].start_time, x.steps[k].end_time),
                   error |-> x.steps[k].error]],
     qa_reports |-> Len(x.qa_reports),
     results_available |-> x.results # <<>>]

\* get_workflow_status that looks in the active table only
GetWorkflowStatusActiveOnly(workflow_id) ==
    /\ reply' =
          IF workflow_id \in active_workflows
          THEN [op |-> "get_workflow_status", workflow_id |-> workflow_id,
                result |-> StatusOf(workflow_id, executions[workflow_id])]
          ELSE [op |-> "get_workflow_status", workflow_id |-> workflow_id,
                error |-> "Workflow not found"]
    /\ UNCHANGED <<now, running, workflows, qa_config, executions, active_workflows,
                   workflow_history, task, monitor>>

\* the active table first, then the first entry of the history with the id
get_workflow_status(workflow_id) ==
    /\ reply' =
          IF \/ workflow_id \in active_workflows
             \/ \E i \in 1..Len(workflow_history) : workflow_history[i] = workflow_id
          THEN [op |-> "get_workflow_status", workflow_id |-> workflow_id,
                result |-> StatusOf(workflow_id, executions[workflow_id])]
          ELSE [op |-> "get_workflow_status", workflow_id |-> workflow_id,
                error |-> "Workflow not found"]
    /\ UNCHANGED <<now, running, workflows, qa_config, executions, active_workflows,
                   workflow_history, task, monitor>>

\* the ids callers ask about: every id handed out and one never handed out
RequestIds == Ids \cup {0}

ClientCatalog == {"one_step"}

InitClient == InitWith({ClientCatalog}, {4})

NextClient ==
    \/ \E name \in DOMAIN workflows : running /\ FreshId <= MaxExec /\ execute_workflow(name)
    \/ \E workflow_id \in RequestIds : running /\ _handle_cancel_workflow(workflow_id)
    \/ \E workflow_id \in RequestIds : running /\ get_workflow_status(workflow_id)
    \/ shutdown
    \/ MonitorExit
    \/ Engine

SpecClient == InitClient /\ [][NextClient]_vars

\* ---- SpecAbsent: steps whose agent has no handler for the action
\* the same two steps without and with QA validation
AbsentCatalog == {"absent_handler", "qa_absent_handler"}

InitAbsent == InitWith({AbsentCatalog}, InitialPhases)

SpecAbsent == InitAbsent /\ [][NextSolo]_vars

\* ---- SpecLive: one execution followed until the monitor has swept it
\* the last instant of the observation: later than the latest creation
\* plus the step timeouts plus the default max_duration plus one sleep of
\* the monitor
LiveHorizon == 700

\* time is followed while the execution is awaited or in the active table
TickLive ==
    /\ executions = <<>> \/ active_workflows # {}
    /\ TickUntil(LiveHorizon)

TaskStep ==
    \E id \in DOMAIN task : AgentReturns(id) \/ AgentRaises(id) \/ StepTimeout(id)

\* a run that aborts under the default max_duration, one under a limit of
\* 1 s, and one that can finalize
LiveCatalog == {"unregistered_agent", "short_deadline", "one_step"}

InitLive == InitWith({LiveCatalog}, {4})

NextLive ==
    \/ \E name \in DOMAIN workflows :
          running /\ executions = <<>> /\ now <= MaxTime /\ execute_workflow(name)
    \/ CancelActive
    \/ \E id \in DOMAIN task : TaskStart(id)
    \/ TaskStep
    \/ MonitorSweep
    \/ TickLive

\* the event loop runs every task that is ready, agent calls return or
\* time out, time advances and the monitor keeps sweeping
Fairness ==
    /\ WF_vars(\E id \in DOMAIN task : TaskStart(id))
    /\ WF_vars(TaskStep)
    /\ WF_vars(MonitorSweep)
    /\ WF_vars(TickLive)

SpecLive == InitLive /\ [][NextLive]_vars /\ Fairness

\* a one-step descriptor with a generic analyze action, made up for a name
\* the catalog does not hold
UnknownWorkflowSynthesized(workflow_name) ==
    /\ executions' = [id \in DOMAIN executions \cup {FreshId} |->
                        IF id = FreshId
                        THEN [NewExecution(FreshId, "no_steps", now) EXCEPT
                                 !.name = workflow_name,
                                 !.steps = <<NewStep([agent |-> "semantic_analysis",
                                                      action |-> "analyze_code"])>>]
                        ELSE executions[id]]
    /\ active_workflows' = active_workflows \cup {FreshId}
    /\ task' = [id \in DOMAIN task \cup {FreshId} |->
                        IF id = FreshId THEN [pc |-> "scheduled", step_data |-> NoneVal]
                        ELSE task[id]]
    /\ reply' = [op |-> "execute_workflow", workflow_name |-> workflow_name,
                 workflow_id |-> FreshId, status |-> "pending", steps |-> 1]
    /\ UNCHANGED <<now, running, workflows, qa_config, workflow_history, monitor>>

\* the name is not in self.workflows: ValueError("Unknown workflow: ...")
UnknownWorkflow(workflow_name) == RequestRaises(workflow_name, "ValueError")

\* SemanticAnalysisSystem.execute_workflow: a known name is delegated to
\* the coordinator with the catalog's descriptor
system_execute_workflow(workflow_name) ==
    IF ~running THEN RequestRaises(workflow_name, "RuntimeError")
    ELSE IF workflow_name \notin DOMAIN workflows THEN UnknownWorkflow(workflow_name)
    ELSE execute_workflow(workflow_name)

\* CoordinatorAgent._handle_execute_workflow: data without "workflow_def"
\* hands None to execute_workflow, whose first statement reads
\* workflow_def.description
_handle_execute_workflow(workflow_name, with_def) ==
    IF with_def THEN execute_workflow(workflow_name)
    ELSE RequestRaises(workflow_name, "AttributeError")

InitEntry == InitWith({WorkflowNames}, {4})

NextEntry ==
    \/ \E workflow_name \in DOMAIN workflows \cup UnknownNames :
          executions = <<>> /\ system_execute_workflow(workflow_name)
    \/ \E workflow_name \in DOMAIN workflows :
          running /\ executions = <<>> /\ _handle_execute_workflow(workflow_name, TRUE)
    \/ \E workflow_name \in DOMAIN workflows \cup UnknownNames :
          running /\ executions = <<>> /\ _handle_execute_workflow(workflow_name, FALSE)
    \/ CancelActive
    \/ Engine

SpecEntry == InitEntry /\ [][NextEntry]_vars

\* ---- SpecFinal: validate_workflow applied to executions in any condition
\* the longest step list handed to validate_workflow
MaxSteps == 5

\* the conditions a step can be in when the workflow is validated
StepKinds == {"pending", "completed", "late", "failed"}

\* a step of an execution that started at StartClock, in the given condition
StepOfKind(kind) ==
    LET step == NewStep([agent |-> "semantic_analysis", action |-> "analyze_code",
                         timeout |-> 10])
    IN  CASE kind = "pending" -> step
          [] kind = "completed" ->
                [step EXCEPT !.status = "completed", !.result = [status |-> "ok"],
                             !.start_time = StartClock, !.end_time = StartClock + 2]
          [] kind = "late" ->
                [step EXCEPT !.status = "completed", !.result = [status |-> "ok"],
                             !.start_time = StartClock, !.end_time = StartClock + 11]
          [] kind = "failed" ->
                [step EXCEPT !.status = "failed", !.error = HandlerErrorText,
                             !.start_time = StartClock, !.end_time = StartClock + 2]

StepLists ==
    UNION {[1..n -> {StepOfKind(kind) : kind \in StepKinds}] : n \in 0..MaxSteps}

\* a call of qa_system.validate_workflow on an execution with these steps
ValidateWorkflowCall(steps) ==
    /\ reply' = [op |-> "validate_workflow", steps |-> steps,
                 report |-> validate_workflow(steps, now)]
    /\ UNCHANGED <<now, running, workflows, qa_config, executions, active_workflows,
                   workflow_history, task, monitor>>

InitFinal == InitWith({WorkflowNames}, {4})

NextFinal == \E steps \in StepLists : running /\ ValidateWorkflowCall(steps)

SpecFinal == InitFinal /\ [][NextFinal]_vars

\* ---- SpecQA: callers hand payloads to the validate_output handler
\* _handle_validate_output: the report of validate_agent_output is the
\* answer; a payload that is no dict makes the validation raise
_handle_validate_output(agent_id, output) ==
    /\ reply' = IF ValidateRaises(agent_id, output)
                THEN [op |-> "validate_output", agent_id |-> agent_id, output |-> output,
                      raised |-> TypeErrorText]
                ELSE [op |-> "validate_output", agent_id |-> agent_id, output |-> output,
                      report |-> validate_agent_output(agent_id, output,
                                     qa_config.auto_correction_enabled, now)]
    /\ UNCHANGED <<now, running, workflows, qa_config, executions, active_workflows,
                   workflow_history, task, monitor>>

\* the payloads of P, and each of them with field key set to a value
WithField(P, key, values) == P \cup {Put(p, key, v) : p \in P, v \in values}

\* payloads callers validate: every combination of the fields the rules
\* name, present or absent, with values on both sides of the thresholds,
\* and None
Payloads ==
    {NoneVal} \cup
    WithField(WithField(WithField(WithField(WithField({<<>>},
        "analysis", {"text"}),
        "significance", {3, 5, 7}),
        "entities", {<<>>, <<"e1">>, <<"e1", "e2">>}),
        "relations", {<<>>, <<"r1">>}),
        "status", {"ok"})

\* agent ids callers name: the two with a rule set and one without
QaAgentIds == {"semantic_analysis", "knowledge_graph", "web_search"}

\* as InitWith, with auto-correction switched on (the default) or off in
\* the quality_thresholds of the coordinator's config
InitQA ==
    /\ now = StartClock
    /\ running = TRUE
    /\ workflows = [name \in WorkflowNames |-> CatalogEntry(name)]
    /\ qa_config \in {[auto_correction_enabled |-> b] : b \in BOOLEAN}
    /\ executions = <<>>
    /\ active_workflows = {}
    /\ workflow_history = <<>>
    /\ task = <<>>
    /\ monitor = [pc |-> "sleeping", wake |-> StartClock + 4]
    /\ reply = NoReply

NextQA ==
    \E agent_id \in QaAgentIds, output \in Payloads :
        running /\ _handle_validate_output(agent_id, output)

SpecQA == InitQA /\ [][NextQA]_vars

\* ---- SpecBus: agents talk to each other through send_event and
\* broadcast_event of the agent base class
\* What awaiting a handler does: it returns a payload or raises an
\* Exception; the handlers are external, so any of these may happen.
HandlerOutcomes(agent, event_type) ==
    {[kind |-> "return", value |-> r] : r \in HandlerResults(agent, event_type)}
        \cup {[kind |-> "raise", message |-> HandlerErrorText]}

NotCalled == [kind |-> "not called"]

\* BaseAgent.handle_event: without a handler it returns None, with one it
\* returns what the handler returns and re-raises what the handler raises
handle_event(agent, event_type, h) ==
    IF HasHandler(agent, event_type) THEN h ELSE [kind |-> "return", value |-> NoneVal]

\* the outcome of send_event, given what the target's handler does
SendOutcomeSwallows(target, event_type, h) ==
    IF target \in RegisteredAgents /\ handle_event(target, event_type, h).kind = "return"
    THEN handle_event(target, event_type, h)
    ELSE [kind |-> "return", value |-> NoneVal]

SendOutcome(target, event_type, h) ==
    IF target \notin RegisteredAgents
    THEN [kind |-> "return", value |-> NoneVal]
    ELSE handle_event(target, event_type, h)

\* the handler that runs during a delivery to agent, if any
Invoked(agent, event_type, h) ==
    IF agent \in RegisteredAgents /\ HasHandler(agent, event_type) THEN h ELSE NotCalled

send_event(sender, target, event_type) ==
    /\ \E h \in HandlerOutcomes(target, event_type) :
          reply' = [op |-> "send_event", sender |-> sender, target |-> target,
                    event_type |-> event_type,
                    handler |-> Invoked(target, event_type, h),
                    outcome |-> SendOutcome(target, event_type, h)]
    /\ UNCHANGED <<now, running, workflows, qa_config, executions, active_workflows,
                   workflow_history, task, monitor>>

\* the loop of broadcast_event over system.agents, from position i on;
\* acc carries the results dict, the agents delivered to so far (in
\* order) and whether an exception left the loop
RECURSIVE BroadcastLoopAborts(_, _, _, _, _, _)
BroadcastLoopAborts(i, sender, event_type, exclude_self, behaviours, acc) ==
    IF i > Len(AgentOrder) THEN acc
    ELSE LET agent_name == AgentOrder[i]
             o == handle_event(agent_name, event_type, behaviours[agent_name])
         IN  IF exclude_self /\ agent_name = sender
             THEN BroadcastLoopAborts(i + 1, sender, event_type, exclude_self, behaviours, acc)
             ELSE IF o.kind = "raise"
             THEN [acc EXCEPT !.calls = Append(@, agent_name), !.raised = TRUE]
             ELSE BroadcastLoopAborts(i + 1, sender, event_type, exclude_self, behaviours,
                      [acc EXCEPT !.calls = Append(@, agent_name),
                                  !.results = Put(@, agent_name, o.value)])

RECURSIVE BroadcastLoop(_, _, _, _, _, _)
BroadcastLoop(i, sender, event_type, exclude_self, behaviours, acc) ==
    IF i > Len(AgentOrder) THEN acc
    ELSE LET agent_name == AgentOrder[i]
             o == handle_event(agent_name, event_type, behaviours[agent_name])
         IN  IF exclude_self /\ agent_name = sender
             THEN BroadcastLoop(i + 1, sender, event_type, exclude_self, behaviours, acc)
             ELSE BroadcastLoop(i + 1, sender, event_type, exclude_self, behaviours,
                      [acc EXCEPT !.calls = Append(@, agent_name),
                                  !.results = Put(@, agent_name,
                                      IF o.kind = "raise" THEN [error |-> o.message]
                                                          ELSE o.value)])

\* one behaviour per registered agent for a delivery of event_type
Behaviours(event_type) ==
    {b \in [RegisteredAgents -> UNION {HandlerOutcomes(a, event_type) : a \in RegisteredAgents}] :
        \A a \in RegisteredAgents : b[a] \in HandlerOutcomes(a, event_type)}

broadcast_event(sender, event_type, exclude_self) ==
    /\ \E behaviours \in Behaviours(event_type) :
          LET done == BroadcastLoop(1, sender, event_type, exclude_self, behaviours,
                                    [results |-> <<>>, calls |-> <<>>, raised |-> FALSE])
          IN  reply' = [op |-> "broadcast_event", sender |-> sender,
                        event_type |-> event_type, exclude_self |-> exclude_self,
                        handlers |-> [a \in RegisteredAgents |->
                                         Invoked(a, event_type, behaviours[a])],
                        results |-> done.results, calls |-> done.calls,
                        raised |-> done.raised]
    /\ UNCHANGED <<now, running, workflows, qa_config, executions, active_workflows,
                   workflow_history, task, monitor>>

\* senders and targets: the registered agents and one that is not
BusAgents == RegisteredAgents \cup {"web_search"}

BusEvents == {"merge_entities", "analyze_code", "create_entities", "generate_summary", "unheard_of"}

InitBus == InitWith({WorkflowNames}, {4})

NextBus ==
    \/ \E sender \in RegisteredAgents, target \in BusAgents, event_type \in BusEvents :
          running /\ send_event(sender, target, event_type)
    \/ \E sender \in RegisteredAgents, event_type \in BusEvents, exclude_self \in BOOLEAN :
          running /\ broadcast_event(sender, event_type, exclude_self)

SpecBus == InitBus /\ [][NextBus]_vars

\* ------------------------------------------------------------------ claims
InHistory(id) == \E i \in 1..Len(workflow_history) : workflow_history[i] = id

InExactlyOne(id) == (id \in active_workflows) # InHistory(id)

\* a step of the monitor's sweep (the only step that moves its wake-up time)
SweepStep == monitor'.wake # monitor.wake

\* C1 (as stated): every execution created so far is in exactly one of the
\* active table and the history list.
C1_ExactlyOneCollection ==
    \A id \in DOMAIN executions : InExactlyOne(id)

\* C1 (amended): an execution is never in both collections; it is in the
\* active table when it is created; and it stops being in exactly one of
\* the two only when a sweep of the monitor cuts the history list down to
\* max_history entries and it was among the oldest.
C1_OneCollectionUntilEvicted ==
    [][ /\ \A id \in DOMAIN executions' :
              ~(id \in active_workflows' /\ InHistory(id)')
        /\ \A id \in DOMAIN executions' \ DOMAIN executions :
              id \in active_workflows'
        /\ \A id \in DOMAIN executions :
              (InExactlyOne(id) /\ ~InExactlyOne(id)')
                  => /\ SweepStep
                     /\ Len(workflow_history') = max_history
                     /\ id \notin active_workflows' ]_vars

\* C1 witness: an execution was evicted from the history while another
\* one is still recorded there.
C1_Witness ==
    \E id \in DOMAIN executions :
        /\ id \notin active_workflows
        /\ ~InHistory(id)
        /\ Len(workflow_history) = max_history

Terminal == {"completed", "failed", "cancelled"}

\* C2 (as stated): a status moves only forward along pending -> running ->
\* terminal, and a terminal status never changes again.
C2_StatusStateMachine ==
    [][ \A id \in DOMAIN executions :
            \/ executions'[id].status = executions[id].status
            \/ executions[id].status = "pending"
                  /\ executions'[id].status \in {"running"} \cup Terminal
            \/ executions[id].status = "running" /\ executions'[id].status \in Terminal ]_vars

\* C3 (as stated): the history list never holds more than max_history
\* entries.
C3_HistoryBounded == Len(workflow_history) <= max_history

\* C3 (amended): the history list holds at most max_history entries
\* right after each sweep of the monitor.
C3_HistoryBoundedAfterSweep ==
    [][ SweepStep => Len(workflow_history') <= max_history ]_vars

\* C3 witness: the monitor has just swept a history that was too long.
C3_Witness ==
    /\ monitor.wake = now + MonitorSleep
    /\ Len(workflow_history) = max_history
    /\ \E id \in DOMAIN executions : id \notin active_workflows /\ ~InHistory(id)

\* C4: a sweep that trims drops the oldest entries only: with d entries
\* dropped, entry j of the new list is entry j + d of the old list, and the
\* entries past the old list are the executions the sweep moved out of the
\* active table, in creation order.
C4_TrimKeepsNewest ==
    [][ SweepStep =>
          LET moved == active_workflows \ active_workflows'
              old == Len(workflow_history)
              new == Len(workflow_history')
              d == old + Cardinality(moved) - new
          IN  /\ new = IF old + Cardinality(moved) > max_history
                       THEN max_history ELSE old + Cardinality(moved)
              /\ \A j \in 1..new :
                    IF j + d <= old
                    THEN workflow_history'[j] = workflow_history[j + d]
                    ELSE /\ workflow_history'[j] \in moved
                         /\ \A k \in 1..new :
                               (k < j /\ k + d > old)
                                   => workflow_history'[k] < workflow_history'[j] ]_vars

\* C4 witness: a sweep has just trimmed the history to max_history entries:
\* an execution that had its entry is in neither collection, and the
\* entries kept are those of an execution moved to the history after it.
C4_Witness ==
    /\ monitor.wake = now + MonitorSleep
    /\ Len(workflow_history) = max_history
    /\ \E id \in DOMAIN executions :
          /\ ~InHistory(id)
          /\ id \notin active_workflows
          /\ \A i \in 1..Len(workflow_history) :
                executions[workflow_history[i]].end_time >= executions[id].end_time

Partial(x) == Get(x.config, "allow_partial_completion", FALSE)

QaEnabled(x) == Get(x.config, "qa_validation", FALSE)

\* C5: when partial completion is not allowed, every step after a failed
\* step is pending and was never started, in every reachable state, and
\* the run task of the execution has ended.
C5_LaterStepsStayPending ==
    \A id \in DOMAIN executions :
        LET x == executions[id]
        IN  ~Partial(x) =>
              \A k \in 1..Len(x.steps) :
                  x.steps[k].status = "failed" =>
                      /\ task[id].pc = "done"
                      /\ \A j \in (k + 1)..Len(x.steps) :
                            /\ x.steps[j].status = "pending"
                            /\ x.steps[j].start_time = NoTime

\* C5 witness: a first step failed by its timeout, with a later step left
\* pending.
C5_Witness ==
    \E id \in DOMAIN executions :
        LET x == executions[id]
        IN  /\ ~Partial(x)
            /\ Len(x.steps) > 1
            /\ x.steps[1].status = "failed"
            /\ x.steps[1].error = StepTimeoutText \o IntToChars(x.steps[1].timeout) \o <<"s">>
            /\ x.steps[2].status = "pending"

\* C6: a cancel_workflow call on an active execution whose run task waits
\* for an agent call sets the status to cancelled, stamps the end time,
\* appends the execution to the history, removes it from the active table
\* and answers {workflow_id, status: cancelled}, all in one step that
\* leaves the run task and the step in flight as they are.
C6_CancelMidStep ==
    [][ \A id \in DOMAIN executions :
            ( /\ id \in active_workflows
              /\ task[id].pc = "awaiting"
              /\ reply'.op = "cancel_workflow"
              /\ reply'.workflow_id = id )
            => /\ reply' = [op |-> "cancel_workflow", workflow_id |-> id,
                            status |-> "cancelled"]
               /\ executions'[id].status = "cancelled"
               /\ executions'[id].end_time = now
               /\ workflow_history' = Append(workflow_history, id)
               /\ active_workflows' = active_workflows \ {id}
               /\ task' = task
               /\ executions'[id].steps = executions[id].steps
               /\ CurrentStep(executions'[id]).status = "running" ]_vars

\* C6 witness: an execution was cancelled while a step was in flight, and
\* that step completed later: it started before the end time the cancel
\* stamped and ended after it, with the execution cancelled and in history.
C6_Witness ==
    \E id \in DOMAIN executions :
        LET x == executions[id]
        IN  /\ x.status = "cancelled"
            /\ InHistory(id)
            /\ id \notin active_workflows
            /\ \E k \in 1..Len(x.steps) :
                  /\ x.steps[k].status = "completed"
                  /\ x.steps[k].start_time <= x.end_time
                  /\ x.steps[k].end_time > x.end_time

\* C7: a step whose agent is not registered is never running; when it
\* leaves pending it is failed with "Agent not found: {name}", every
\* earlier step is completed, and in that same step the run ends with the
\* execution failed and its end time stamped.
C7_AgentNotFound ==
    [][ \A id \in DOMAIN executions' :
          \A k \in 1..Len(executions'[id].steps) :
            LET x == executions'[id]
                step == x.steps[k]
            IN  step.agent \notin RegisteredAgents =>
                  /\ step.status \in {"pending", "failed"}
                  /\ step.status = "failed" =>
                        /\ step.error = AgentNotFoundText \o CharsOf(step.agent)
                        /\ \A j \in 1..(k - 1) : x.steps[j].status = "completed"
                        /\ task'[id].pc = "done"
                  /\ (id \in DOMAIN executions
                        /\ executions[id].steps[k].status = "pending"
                        /\ step.status = "failed")
                     => /\ x.status = "failed"
                        /\ x.end_time = now
                        /\ x.current_step_index = k - 1 ]_vars

\* C7 witness: the second step names an unregistered agent and is failed
\* with the message, the first step is completed, the execution is failed.
C7_Witness ==
    \E id \in DOMAIN executions :
        LET x == executions[id]
        IN  /\ Len(x.steps) >= 2
            /\ x.steps[1].status = "completed"
            /\ x.steps[2].agent \notin RegisteredAgents
            /\ x.steps[2].status = "failed"
            /\ x.steps[2].error = AgentNotFoundText \o CharsOf("web_search")
            /\ x.status = "failed"

MaxDuration(x) == Get(x.config, "max_duration", DefaultMaxDuration)

\* the run task of id is waiting for an agent call under a step timeout
\* longer than the max_duration of the execution
ShortDeadline(id) ==
    /\ task[id].pc = "awaiting"
    /\ MaxDuration(executions[id]) < CurrentStep(executions[id]).timeout

\* the wait_for of the step in flight of id times out in this step
TimeoutFires(id) ==
    /\ ShortDeadline(id)
    /\ CurrentStep(executions[id]).status = "running"
    /\ CurrentStep(executions'[id]).status = "failed"
    /\ CurrentStep(executions'[id]).error =
          StepTimeoutText \o IntToChars(CurrentStep(executions[id]).timeout) \o <<"s">>

\* C8 (as stated): when max_duration is shorter than the timeout of a step
\* whose agent call does not return, the monitor has force-failed the
\* execution and moved it to history by the time the step timeout fires.
C8_SweepBeforeTimeout ==
    [][ \A id \in DOMAIN executions :
            TimeoutFires(id) =>
                /\ executions[id].status = "failed"
                /\ InHistory(id) ]_vars

\* C8 (amended): which of the two fails the execution first depends on
\* where the 30 s sweeps fall.  A sweep that finds the execution in the
\* active table older than max_duration sets it failed, stamps the end time
\* and moves it to history, leaving the run task waiting.  When the step
\* timeout fires with the execution still in the active table, no sweep has
\* run since the execution became overdue, the run loop sets the execution
\* failed and the execution stays in the active table.
C8_SweepOrTimeoutFirst ==
    [][ \A id \in DOMAIN executions :
          /\ ( /\ SweepStep
               /\ ShortDeadline(id)
               /\ id \in active_workflows
               /\ now - executions[id].start_time > MaxDuration(executions[id]) )
             => /\ executions'[id].status = "failed"
                /\ executions'[id].end_time = now
                /\ InHistory(id)'
                /\ id \notin active_workflows'
                /\ task' = task
                /\ executions'[id].steps = executions[id].steps
          /\ ( TimeoutFires(id) /\ id \in active_workflows )
             => /\ monitor.wake >= now
                /\ (monitor.wake - MonitorSleep) - executions[id].start_time
                      <= MaxDuration(executions[id])
                /\ executions'[id].status = "failed"
                /\ executions'[id].end_time = now
                /\ id \in active_workflows'
                /\ workflow_history' = workflow_history
                /\ task'[id].pc = "done" ]_vars

\* C8 witness: the monitor failed the execution and moved it to history
\* while its run task still waits for the agent call, before the deadline
\* of the step.
C8_Witness ==
    \E id \in DOMAIN executions :
        /\ ShortDeadline(id)
        /\ executions[id].status = "failed"
        /\ InHistory(id)
        /\ id \notin active_workflows
        /\ CurrentStep(executions[id]).status = "running"
        /\ now < Deadline(executions[id])

AllCompleted(x) == \A k \in 1..Len(x.steps) : x.steps[k].status = "completed"

\* C9: when the run task of an execution without QA validation ends with
\* all n steps completed and the execution still in the active table (no
\* cancel, no forced failure), the execution is completed, results has n
\* entries, the history gains exactly the entry of this execution and the
\* active table loses exactly this execution, which takes it back to the
\* size it had before execute_workflow inserted the execution.
C9_AllStepsSucceed ==
    [][ \A id \in DOMAIN executions :
            ( /\ ~QaEnabled(executions[id])
              /\ Len(executions[id].steps) >= 1
              /\ id \in active_workflows
              /\ task[id].pc # "done"
              /\ task'[id].pc = "done"
              /\ AllCompleted(executions'[id]) )
            => /\ executions'[id].status = "completed"
               /\ Cardinality(DOMAIN executions'[id].results) = Len(executions[id].steps)
               /\ workflow_history' = Append(workflow_history, id)
               /\ active_workflows' = active_workflows \ {id}
               /\ Cardinality(active_workflows') = Cardinality(active_workflows) - 1 ]_vars

\* C9 witness: a three-step execution without QA is completed with three
\* results, it is the only entry of the history and the active table is
\* empty again.
C9_Witness ==
    \E id \in DOMAIN executions :
        LET x == executions[id]
        IN  /\ ~QaEnabled(x)
            /\ Len(x.steps) = 3
            /\ AllCompleted(x)
            /\ x.status = "completed"
            /\ Cardinality(DOMAIN x.results) = 3
            /\ workflow_history = <<id>>
            /\ active_workflows = {}

\* the payload of step k of x lacks a required field of the rule set of
\* its agent
LacksRequiredField(x, k) ==
    /\ x.steps[k].result # NoneVal
    /\ MissingFieldErrors(required_fields(x.steps[k].agent), x.steps[k].result) # <<>>

\* C10: with QA validation on and partial completion off, a step whose
\* payload lacks a required field is failed, its error text is
\* "QA validation failed: " followed by the list of validation errors, which
\* names every missing field, the QA report of the step has corrected =
\* false and no corrected output, the payload is not stored in results,
\* every later step is pending and the run task has ended.
C10_MissingFieldFailsStep ==
    \A id \in DOMAIN executions :
        LET x == executions[id]
        IN  (QaEnabled(x) /\ ~Partial(x)) =>
              \A k \in 1..Len(x.steps) :
                  LacksRequiredField(x, k) =>
                      LET missing == MissingFieldErrors(required_fields(x.steps[k].agent),
                                                        x.steps[k].result)
                      IN  /\ x.steps[k].status = "failed"
                          /\ Len(x.qa_reports) >= k
                          /\ ~x.qa_reports[k].passed
                          /\ ~x.qa_reports[k].corrected
                          /\ x.qa_reports[k].corrected_output = NoneVal
                          /\ x.steps[k].error = QAFailedText \o ListRepr(x.qa_reports[k].errors)
                          /\ \A m \in 1..Len(missing) :
                                /\ \E e \in 1..Len(x.qa_reports[k].errors) :
                                      x.qa_reports[k].errors[e] = missing[m]
                                /\ Contains(x.steps[k].error, missing[m])
                          /\ StepKey(k - 1, x.steps[k]) \notin DOMAIN x.results
                          /\ \A j \in (k + 1)..Len(x.steps) : x.steps[j].status = "pending"
                          /\ task[id].pc = "done"

\* C10 witness: the first step returned a payload without "significance"
\* and was failed by QA, the second step is pending.
C10_Witness ==
    \E id \in DOMAIN executions :
        LET x == executions[id]
        IN  /\ QaEnabled(x) /\ ~Partial(x)
            /\ LacksRequiredField(x, 1)
            /\ "significance" \notin DOMAIN x.steps[1].result
            /\ x.steps[1].status = "failed"
            /\ x.steps[2].status = "pending"

\* step k of execution id leaves pending in this step: iteration k of the
\* run loop begins
IterationBegins(id, k) ==
    /\ id \in DOMAIN executions
    /\ executions[id].steps[k].status = "pending"
    /\ executions'[id].steps[k].status # "pending"

\* C11 (as stated): current_step_index never decreases, never exceeds
\* len(steps) - 1 and moves by at most one in a step of the run.
C11_IndexInRange ==
    [][ \A id \in DOMAIN executions' :
          /\ executions'[id].current_step_index <= Len(executions'[id].steps) - 1
          /\ id \in DOMAIN executions =>
                /\ executions'[id].current_step_index >= executions[id].current_step_index
                /\ executions'[id].current_step_index
                      <= executions[id].current_step_index + 1 ]_vars

\* C11 (amended): for an execution with at least one step the index stays
\* within 0..len(steps)-1, never decreases, and is k - 1 from the beginning
\* of iteration k on (so it advances by exactly one from one iteration to
\* the next, and only there); an execution without steps keeps index 0,
\* which is above len(steps) - 1 = -1.
C11_IndexAdvancesByOne ==
    [][ \A id \in DOMAIN executions' :
          LET x == executions'[id]
              n == Len(x.steps)
          IN  /\ n >= 1 => x.current_step_index \in 0..(n - 1)
              /\ n = 0 => x.current_step_index = 0
              /\ \A k \in 1..n : IterationBegins(id, k) => x.current_step_index = k - 1
              /\ id \in DOMAIN executions =>
                    /\ x.current_step_index \in
                          {executions[id].current_step_index,
                           executions[id].current_step_index + 1}
                    /\ x.current_step_index = executions[id].current_step_index + 1
                          => IterationBegins(id, x.current_step_index + 1) ]_vars

\* C11 witness: the third iteration of a run has begun, the index is 2.
C11_Witness ==
    \E id \in DOMAIN executions :
        /\ Len(executions[id].steps) = 3
        /\ executions[id].current_step_index = 2
        /\ executions[id].steps[3].status = "running"
        /\ executions[id].steps[2].status = "completed"

\* execute_workflow answers in this step with the id of a new execution
ExecuteReturns == reply'.op = "execute_workflow" /\ "workflow_id" \in DOMAIN reply'

\* C12: in the step in which execute_workflow returns, the execution is new,
\* it is in the active table, the answer is {workflow_id, status: pending,
\* steps: n}, the execution is pending with index 0, no results and no QA
\* reports, every step is pending and untouched, and the run task is
\* created but has not run.
C12_ExecuteReturnsPending ==
    [][ ExecuteReturns =>
          LET id == reply'.workflow_id
              x == executions'[id]
          IN  /\ id \notin DOMAIN executions
              /\ id \in active_workflows'
              /\ reply' = [op |-> "execute_workflow", workflow_name |-> x.name,
                           workflow_id |-> id,
                           status |-> "pending", steps |-> Len(x.steps)]
              /\ x.status = "pending"
              /\ x.current_step_index = 0
              /\ x.results = <<>>
              /\ x.qa_reports = <<>>
              /\ \A k \in 1..Len(x.steps) :
                    /\ x.steps[k].status = "pending"
                    /\ x.steps[k].result = NoneVal
                    /\ x.steps[k].start_time = NoTime
              /\ task'[id] = [pc |-> "scheduled", step_data |-> NoneVal]
              /\ workflow_history' = workflow_history ]_vars

\* C12 witness: execute_workflow has just returned for a three-step
\* workflow: the answer says pending and the run task has not started.
C12_Witness ==
    /\ reply.op = "execute_workflow"
    /\ "workflow_id" \in DOMAIN reply
    /\ reply.status = "pending"
    /\ reply.steps = 3
    /\ task[reply.workflow_id].pc = "scheduled"
    /\ executions[reply.workflow_id].steps[1].status = "pending"

\* the last answer is a QA report on a payload that holds every required
\* field of an agent with a rule set
ValidatedComplete ==
    /\ reply.op = "validate_output"
    /\ "report" \in DOMAIN reply
    /\ required_fields(reply.agent_id) # <<>>
    /\ MissingFieldErrors(required_fields(reply.agent_id), reply.output) = <<>>

\* C13 (as stated): the report on a payload with no missing required field
\* has corrected = false and no corrected payload.
C13_CompletePayloadNotCorrected ==
    ValidatedComplete =>
        /\ ~reply.report.corrected
        /\ reply.report.corrected_output = NoneVal

\* the run task of id dispatches step k to its agent in this step
Dispatches(id, k) ==
    /\ task'[id].pc = "awaiting"
    /\ task'[id] # task[id]
    /\ executions'[id].current_step_index = k - 1

\* C14: a step is dispatched at most once.  A dispatch goes to a step that
\* was pending and never started; a step that has left pending never
\* becomes running again and keeps its start time; a failed step does not
\* change at all, whatever retry_failed_steps and max_retries say.
C14_NoRetry ==
    [][ \A id \in DOMAIN executions :
          \A k \in 1..Len(executions[id].steps) :
            LET old == executions[id].steps[k]
                new == executions'[id].steps[k]
            IN  /\ Dispatches(id, k) =>
                      /\ old.status = "pending"
                      /\ old.start_time = NoTime
                /\ old.status \in {"completed", "failed"} => new.status # "running"
                /\ old.status # "pending" => new.start_time = old.start_time
                /\ old.status = "failed" => new = old ]_vars

\* C14 witness: the config asks for retries, the first step failed by its
\* timeout and the run task has ended with the step still failed.
C14_Witness ==
    \E id \in DOMAIN executions :
        LET x == executions[id]
        IN  /\ Get(x.config, "retry_failed_steps", FALSE)
            /\ Get(x.config, "max_retries", 0) > 0
            /\ x.steps[1].status = "failed"
            /\ x.steps[1].error = StepTimeoutText \o IntToChars(x.steps[1].timeout) \o <<"s">>
            /\ task[id].pc = "done"
            /\ now > x.steps[1].end_time

\* ---- C15
Absent == [kind |-> "return", value |-> NoneVal]

\* C15: a send to a name that is not registered, or to an agent without a
\* handler for the event type, returns absent without raising and runs no
\* handler; with a handler, send returns what the handler returned; and
\* when the handler raises, that exception leaves send.
C15_SendOutcome ==
    reply.op = "send_event" =>
        /\ (reply.target \notin RegisteredAgents
              \/ ~HasHandler(reply.target, reply.event_type))
               => reply.handler = NotCalled /\ reply.outcome = Absent
        /\ (reply.target \in RegisteredAgents
              /\ HasHandler(reply.target, reply.event_type))
               => /\ reply.handler \in HandlerOutcomes(reply.target, reply.event_type)
                  /\ reply.handler.kind = "return"
                        => reply.outcome = [kind |-> "return", value |-> reply.handler.value]
                  /\ reply.handler.kind = "raise"
                        => reply.outcome = [kind |-> "raise", message |-> reply.handler.message]

C15_Witness ==
    /\ reply.op = "send_event"
    /\ reply.target \in RegisteredAgents
    /\ reply.handler.kind = "raise"
    /\ reply.outcome.kind = "raise"

\* ---- C16
\* the registered agents a broadcast of the last reply delivers to, in
\* the order of the registry
RECURSIVE Others(_, _, _)
Others(i, sender, exclude_self) ==
    IF i > Len(AgentOrder) THEN <<>>
    ELSE IF exclude_self /\ AgentOrder[i] = sender
         THEN Others(i + 1, sender, exclude_self)
         ELSE <<AgentOrder[i]>> \o Others(i + 1, sender, exclude_self)

\* C16: a broadcast with exclude_self delivers to every registered agent
\* other than the sender exactly once, in sequence; its mapping has exactly
\* one entry per such agent, holding the handler's result, absent when the
\* agent has no handler, or {error: message} when the handler raised; a
\* raising handler stops neither the later deliveries nor the broadcast.
C16_BroadcastMapping ==
    (reply.op = "broadcast_event" /\ reply.exclude_self) =>
        /\ ~reply.raised
        /\ reply.calls = Others(1, reply.sender, TRUE)
        /\ DOMAIN reply.results = RegisteredAgents \ {reply.sender}
        /\ \A a \in RegisteredAgents \ {reply.sender} :
              /\ Cardinality({i \in 1..Len(reply.calls) : reply.calls[i] = a}) = 1
              /\ reply.handlers[a] = NotCalled => reply.results[a] = NoneVal
              /\ reply.handlers[a].kind = "return"
                    => reply.results[a] = reply.handlers[a].value
              /\ reply.handlers[a].kind = "raise"
                    => reply.results[a] = [error |-> reply.handlers[a].message]

\* the first agent delivered to raised, a later one returned a result
C16_Witness ==
    /\ reply.op = "broadcast_event" /\ reply.exclude_self
    /\ reply.event_type = "merge_entities"
    /\ reply.sender = "coordinator"
    /\ reply.handlers["deduplication"].kind = "raise"
    /\ reply.results["deduplication"] = [error |-> HandlerErrorText]
    /\ reply.handlers["knowledge_graph"].kind = "return"
    /\ reply.results["knowledge_graph"] = reply.handlers["knowledge_graph"].value
    /\ reply.results["semantic_analysis"] = NoneVal

C19_RunTaskIsolation ==
    [][ \A a \in DOMAIN task :
          task'[a] # task[a] =>
              \A b \in DOMAIN executions \ {a} :
                  /\ executions'[b].steps = executions[b].steps
                  /\ executions'[b].status = executions[b].status
                  /\ executions'[b].results = executions[b].results
                  /\ executions'[b].qa_reports = executions[b].qa_reports
                  /\ executions'[b].current_step_index
                        = executions[b].current_step_index ]_vars

\* two run tasks wait for their agents, and one of them has already
\* stored a result and a QA report while the other was in flight
C19_Witness ==
    \E a, b \in DOMAIN task :
        /\ a # b
        /\ task[a].pc = "awaiting" /\ task[b].pc = "awaiting"
        /\ executions[a].current_step_index = 1
        /\ DOMAIN executions[a].results # {}
        /\ Len(executions[a].qa_reports) = 1
        /\ executions[b].current_step_index = 0
        /\ DOMAIN executions[b].results = {}
        /\ executions[b].steps[1].status = "running"

\* ---- C20
\* the agent call of the current step of id ends without a result: the
\* step was running, is failed now and holds no result
CallFails(id) ==
    /\ task[id].pc = "awaiting"
    /\ CurrentStep(executions[id]).status = "running"
    /\ executions'[id].steps[executions[id].current_step_index + 1].status = "failed"
    /\ executions'[id].steps[executions[id].current_step_index + 1].result = NoneVal

WorkflowLevel(report) == "total_steps" \in DOMAIN report

WorkflowLevelReports(x) ==
    {n \in 1..Len(x.qa_reports) : WorkflowLevel(x.qa_reports[n])}

QAStopped(step) ==
    /\ step.status = "failed"
    /\ Len(step.error) >= Len(QAFailedText)
    /\ SubSeq(step.error, 1, Len(QAFailedText)) = QAFailedText

\* the run loop of id exits in this step without an exception: all its
\* steps are done, or a failed QA validation stopped it early
LoopExits(id) ==
    /\ task[id].pc \in {"scheduled", "awaiting"}
    /\ task'[id].pc = "done"
    /\ LET y == executions'[id]
           qa == Get(y.config, "qa_validation", FALSE)
       IN  \/ /\ AllCompleted(y)
              /\ \A k \in 1..Len(y.steps) :
                    ~(qa /\ ValidateRaises(y.steps[k].agent, y.steps[k].result))
           \/ \E k \in 1..Len(y.steps) : QAStopped(y.steps[k])

\* C21: when the run loop exits without an execution-fatal abort, the
\* finalization runs once: one workflow-level report is appended as the
\* last report, the status is completed if it passed and failed otherwise,
\* the end time is stamped, the execution leaves the active table and its
\* id is appended to the history; a run task that has ended appends nothing
\* more, so no execution ever holds two workflow-level reports.
C21_FinalizedOnce ==
    [][ \A id \in DOMAIN task :
          LET x == executions[id]
              y == executions'[id]
              n == Len(y.qa_reports)
          IN  /\ LoopExits(id) =>
                    /\ WorkflowLevelReports(x) = {}
                    /\ WorkflowLevelReports(y) = {n}
                    /\ y.qa_reports[n] = validate_workflow(y.steps, now)
                    /\ y.status = IF y.qa_reports[n].passed THEN "completed" ELSE "failed"
                    /\ y.end_time = now
                    /\ id \notin active_workflows'
                    /\ workflow_history' = Append(workflow_history, id)
              /\ task[id].pc = "done" =>
                    /\ task'[id].pc = "done"
                    /\ y.qa_reports = x.qa_reports
                    /\ y.steps = x.steps ]_vars

\* a run stopped early by a failed QA validation was finalized: the step
\* report is followed by one workflow-level report that did not pass
C21_Witness ==
    \E id \in DOMAIN task :
        LET x == executions[id]
        IN  /\ task[id].pc = "done"
            /\ \E k \in 1..Len(x.steps) : QAStopped(x.steps[k])
            /\ WorkflowLevelReports(x) = {Len(x.qa_reports)}
            /\ Len(x.qa_reports) >= 2
            /\ ~x.qa_reports[Len(x.qa_reports)].passed
            /\ x.status = "failed"
            /\ id \notin active_workflows
            /\ workflow_history = <<id>>

\* ---- C22
\* the agent call in flight of id returns in this step
StepReturns(id) ==
    /\ task[id].pc = "awaiting"
    /\ CurrentStep(executions[id]).status = "running"
    /\ executions'[id].steps[executions[id].current_step_index + 1].status = "completed"

\* the cancelled execution id has left the active table while its run task
\* waits for an agent call
CancelledMidStep(id) ==
    /\ task[id].pc = "awaiting"
    /\ executions[id].status = "cancelled"
    /\ id \notin active_workflows

\* the validation of the result that step k of x returned with raises
ValidationAborts(y, k) ==
    QaEnabled(y) /\ ValidateRaises(y.steps[k].agent, y.steps[k].result)

\* C22: a cancel_workflow on an execution whose run task is mid-step does
\* not stop the task; when the step in flight returns, the task marks it
\* completed, stores its result, and goes on: it starts the next step
\* (dispatching it if its agent is registered, failing the run if not), or
\* after the last step finalizes, which overwrites the cancelled status and
\* appends the execution to the history once more, although the execution
\* is not in the active table.  A returned result whose validation raises
\* ends the run there, as it does in a run that was not cancelled: the
\* task still marks the step completed and fails the execution.
C22_CancelDoesNotStopRun ==
    [][ \A id \in DOMAIN task :
          LET x == executions[id]
              y == executions'[id]
              k == x.current_step_index + 1
          IN  /\ ( /\ task[id].pc = "awaiting"
                   /\ reply'.op = "cancel_workflow"
                   /\ reply'.workflow_id = id
                   /\ "status" \in DOMAIN reply' )
                  => CancelledMidStep(id)' /\ task'[id] = task[id]
              /\ (CancelledMidStep(id) /\ StepReturns(id) /\ ValidationAborts(y, k)) =>
                    /\ y.steps[k].end_time = now
                    /\ id \notin active_workflows'
                    /\ y.status = "failed"
                    /\ y.end_time = now
                    /\ task'[id].pc = "done"
              /\ (CancelledMidStep(id) /\ StepReturns(id) /\ ~ValidationAborts(y, k)) =>
                    /\ y.steps[k].end_time = now
                    /\ StepKey(k - 1, x.steps[k]) \in DOMAIN y.results
                    /\ y.results[StepKey(k - 1, x.steps[k])] = y.steps[k].result
                    /\ id \notin active_workflows'
                    /\ k < Len(x.steps) =>
                          /\ y.current_step_index = k
                          /\ y.steps[k + 1].start_time = now
                          /\ IF x.steps[k + 1].agent \in RegisteredAgents
                             THEN /\ y.steps[k + 1].status = "running"
                                  /\ task'[id].pc = "awaiting"
                                  /\ y.status = "cancelled"
                             ELSE /\ y.steps[k + 1].status = "failed"
                                  /\ task'[id].pc = "done"
                                  /\ y.status = "failed"
                    /\ k = Len(x.steps) =>
                          /\ task'[id].pc = "done"
                          /\ y.status \in {"completed", "failed"}
                          /\ WorkflowLevelReports(y) = {Len(y.qa_reports)}
                          /\ workflow_history' = Append(workflow_history, id) ]_vars

\* an execution was cancelled during its second step; that step completed
\* after the cancel, its result is stored and the third step was
\* dispatched, with the execution cancelled and out of the active table
C22_Witness ==
    \E id \in DOMAIN task :
        LET x == executions[id]
        IN  /\ CancelledMidStep(id)
            /\ InHistory(id)
            /\ x.current_step_index = 2
            /\ x.steps[2].status = "completed"
            /\ x.steps[2].start_time <= x.end_time
            /\ x.steps[2].end_time > x.end_time
            /\ StepKey(1, x.steps[2]) \in DOMAIN x.results
            /\ x.steps[3].status = "running"
            /\ x.steps[3].start_time > x.end_time

\* ---- C23
\* the active executions older than their limit at the time of the sweep
TooOld == {id \in active_workflows : now - executions[id].start_time > MaxDuration(executions[id])}

JustSwept == monitor.pc = "sleeping" /\ monitor.wake = now + MonitorSleep

\* C23: a sweep of the monitor sets to failed, stamps with the current time
\* and moves from the active table to the history exactly the active
\* executions whose age is strictly greater than their max_duration (600 s
\* when the config names none), without touching their run task or their
\* steps; every other execution is left as it is.
C23_SweepFailsExactlyOverdue ==
    [][ SweepStep =>
          /\ active_workflows' = active_workflows \ TooOld
          /\ \A id \in TooOld :
                /\ executions'[id] = [executions[id] EXCEPT !.status = "failed",
                                                            !.end_time = now]
                /\ Cardinality(TooOld) <= max_history => InHistory(id)'
          /\ \A id \in DOMAIN executions \ TooOld :
                /\ executions'[id] = executions[id]
                /\ InHistory(id)' => InHistory(id)
          /\ task' = task ]_vars

\* two executions started at the same time 4 s before a sweep: the one
\* with max_duration 1 was failed and moved to history while its run task
\* still waits for its agent, the one without a configured limit is still
\* active and running
C23_Witness ==
    /\ JustSwept
    /\ \E a, b \in DOMAIN executions :
          /\ executions[a].start_time = executions[b].start_time
          /\ now - executions[a].start_time = 4
          /\ Get(executions[a].config, "max_duration", 0) = 1
          /\ "max_duration" \notin DOMAIN executions[b].config
          /\ executions[a].status = "failed"
          /\ executions[a].end_time = now
          /\ InHistory(a) /\ a \notin active_workflows
          /\ task[a].pc = "awaiting"
          /\ b \in active_workflows /\ ~InHistory(b)
          /\ executions[b].status = "running"

\* ---- C24
MentionsMissingField(error) == Contains(error, MissingFieldText)

\* C24: a validation report with a "Missing required field" error has
\* corrected = false and no corrected payload, and every payload that lacks
\* a required field gets such a report; a corrected payload exists only
\* when there are errors, none of them matches a critical pattern and
\* auto-correction is enabled, and it never holds a field the payload did
\* not have: no placeholder is ever filled in.
C24_MissingFieldNeverCorrected ==
    (reply.op = "validate_output" /\ "report" \in DOMAIN reply) =>
        LET r == reply.report
        IN  /\ MissingFieldErrors(required_fields(reply.agent_id), reply.output) # <<>>
                  => \E i \in 1..Len(r.errors) : MentionsMissingField(r.errors[i])
            /\ (\E i \in 1..Len(r.errors) : MentionsMissingField(r.errors[i]))
                  => ~r.corrected /\ r.corrected_output = NoneVal
            /\ r.corrected_output # NoneVal =>
                  /\ r.errors # <<>>
                  /\ \A i \in 1..Len(r.errors) : \A p \in 1..Len(critical_patterns) :
                        ~Contains(Lower(r.errors[i]), critical_patterns[p])
                  /\ qa_config.auto_correction_enabled
                  /\ DOMAIN r.corrected_output = DOMAIN reply.output

\* with auto-correction enabled, a knowledge_graph payload without
\* "relations" and with no entity was reported with a critical and a
\* non-critical error and left uncorrected
C24_Witness ==
    /\ reply.op = "validate_output" /\ "report" \in DOMAIN reply
    /\ qa_config.auto_correction_enabled
    /\ reply.agent_id = "knowledge_graph"
    /\ "relations" \notin DOMAIN reply.output
    /\ Len(reply.report.errors) = 2
    /\ MentionsMissingField(reply.report.errors[1])
    /\ ~MentionsMissingField(reply.report.errors[2])
    /\ ~reply.report.corrected
    /\ reply.report.corrected_output = NoneVal

\* ---- C25
\* the step report k of x did not pass and carries no correction
FailedUncorrected(x, k) ==
    /\ k <= Len(x.qa_reports)
    /\ ~WorkflowLevel(x.qa_reports[k])
    /\ ~x.qa_reports[k].passed
    /\ ~x.qa_reports[k].corrected

\* the call of a step of x aborted the run: the step is failed and has no
\* result
CallAborted(x) ==
    \E j \in 1..Len(x.steps) : x.steps[j].status = "failed" /\ x.steps[j].result = NoneVal

\* an exception ended the run of x: an agent call failed, or the
\* validation of a returned result raised
FatallyAborted(x) ==
    \/ CallAborted(x)
    \/ \E j \in 1..Len(x.steps) :
          /\ QaEnabled(x)
          /\ x.steps[j].status = "completed"
          /\ ValidateRaises(x.steps[j].agent, x.steps[j].result)

\* C25 (as stated): with QA validation and allow_partial_completion on, a
\* step whose validation failed without a correction is completed, its raw
\* result is stored, and in a run that has ended every step after it was
\* dispatched.
C25_AllRemainingDispatched ==
    \A id \in DOMAIN task :
        LET x == executions[id]
        IN  (QaEnabled(x) /\ Partial(x) /\ task[id].pc = "done") =>
                \A k \in 1..Len(x.steps) :
                    FailedUncorrected(x, k) =>
                        /\ x.steps[k].status = "completed"
                        /\ x.results[StepKey(k - 1, x.steps[k])] = x.steps[k].result
                        /\ \A j \in (k + 1)..Len(x.steps) : x.steps[j].status # "pending"

\* C25 (amended): with QA validation and allow_partial_completion on, a
\* step whose validation failed without a correction stays completed and
\* its raw result is stored; in the step in which it returns the run goes
\* on to the next step, which is dispatched, or finalizes after the last
\* one; and when the run has ended, a step after it is still pending only
\* if an exception aborted the run at an earlier step (its agent call
\* failed, or the validation of its result raised).
C25_PartialRunContinues ==
    [][ \A id \in DOMAIN task :
          LET x == executions[id]
              y == executions'[id]
              k == x.current_step_index + 1
          IN  (QaEnabled(x) /\ Partial(x)) =>
                /\ (StepReturns(id) /\ FailedUncorrected(y, k)) =>
                      /\ y.steps[k].status = "completed"
                      /\ y.steps[k].result # NoneVal
                      /\ y.results[StepKey(k - 1, y.steps[k])] = y.steps[k].result
                      /\ (k < Len(x.steps) /\ x.steps[k + 1].agent \in RegisteredAgents) =>
                            /\ y.current_step_index = k
                            /\ y.steps[k + 1].status = "running"
                            /\ task'[id].pc = "awaiting"
                      /\ k = Len(x.steps) => task'[id].pc = "done"
                /\ \A j \in 1..Len(y.steps) :
                      FailedUncorrected(y, j) =>
                          /\ y.steps[j].status = "completed"
                          /\ y.results[StepKey(j - 1, y.steps[j])] = y.steps[j].result
                          /\ (task'[id].pc = "done" /\ ~FatallyAborted(y)) =>
                                \A m \in (j + 1)..Len(y.steps) :
                                    y.steps[m].status = "completed" ]_vars

\* the first step of a run with partial completion failed its validation
\* without a correction and stayed completed with its result stored, and
\* the two steps after it were dispatched and completed
C25_Witness ==
    \E id \in DOMAIN task :
        LET x == executions[id]
        IN  /\ QaEnabled(x) /\ Partial(x)
            /\ task[id].pc = "done"
            /\ Len(x.steps) = 3
            /\ FailedUncorrected(x, 1)
            /\ AllCompleted(x)
            /\ x.results[StepKey(0, x.steps[1])] = x.steps[1].result
            /\ Cardinality(DOMAIN x.results) = 3

\* ---- C26
\* the run task of id appends the validation report of its current step in
\* this step
StepValidated(id) ==
    /\ task[id].pc = "awaiting"
    /\ Len(executions'[id].qa_reports) > Len(executions[id].qa_reports)
    /\ ~WorkflowLevel(executions'[id].qa_reports[Len(executions[id].qa_reports) + 1])

\* C26: when the validation report of a step has corrected = true, the
\* report did not pass, yet the step stays completed and the run is not
\* stopped by the validation; the value stored in results under the step's
\* key is the report's corrected payload, and the previous_results handed
\* to the next step holds that payload.
C26_CorrectedPayloadStored ==
    [][ \A id \in DOMAIN task :
          LET x == executions[id]
              y == executions'[id]
              k == x.current_step_index + 1
              report == y.qa_reports[Len(x.qa_reports) + 1]
              key == StepKey(k - 1, x.steps[k])
          IN  (StepValidated(id) /\ report.corrected) =>
                /\ ~report.passed
                /\ report.corrected_output # NoneVal
                /\ y.steps[k].status = "completed"
                /\ y.steps[k].error = NoError
                /\ ~QAStopped(y.steps[k])
                /\ key \in DOMAIN y.results
                /\ y.results[key] = report.corrected_output
                /\ (k < Len(x.steps) /\ x.steps[k + 1].agent \in RegisteredAgents) =>
                      /\ task'[id].pc = "awaiting"
                      /\ task'[id].step_data.previous_results[key] = report.corrected_output
                /\ k = Len(x.steps) => WorkflowLevelReports(y) = {Len(y.qa_reports)} ]_vars

\* the second step of a strictly validated run got a report that did not
\* pass but carries a correction; the step is completed, the corrected
\* payload is stored, and the run was finalized as completed
C26_Witness ==
    \E id \in DOMAIN task :
        LET x == executions[id]
        IN  /\ QaEnabled(x) /\ ~Partial(x)
            /\ Len(x.qa_reports) = 3
            /\ x.qa_reports[2].corrected /\ ~x.qa_reports[2].passed
            /\ x.steps[2].status = "completed"
            /\ x.results[StepKey(1, x.steps[2])] = x.qa_reports[2].corrected_output
            /\ x.status = "completed"

\* ---- C27
\* completeness c / n is below the minimum of 0.8; it is 0 when n = 0
BelowMinimum(c, n) == IF n = 0 THEN TRUE ELSE 10 * c < 8 * n

\* C27: the report of validate_workflow gives the completeness as the
\* number of completed steps over the number of steps (0 without steps);
\* its errors are one "Workflow incomplete" error when the completeness is
\* below 0.8, then one "Step failed" error per failed step, and nothing
\* else; passed is true exactly when there is no error, whatever the
\* warnings.
C27_WorkflowReport ==
    (reply.op = "validate_workflow") =>
        LET steps == reply.steps
            r == reply.report
            completed == {i \in 1..Len(steps) : steps[i].status = "completed"}
            failed == {i \in 1..Len(steps) : steps[i].status = "failed"}
            low == BelowMinimum(Cardinality(completed), Len(steps))
            incomplete == {i \in 1..Len(r.errors) : Contains(r.errors[i], WorkflowIncompleteText)}
            step_failed == {i \in 1..Len(r.errors) : Contains(r.errors[i], StepFailedText)}
        IN  /\ r.completed_steps = Cardinality(completed)
            /\ r.total_steps = Len(steps)
            /\ r.failed_steps = Cardinality(failed)
            /\ incomplete = IF low THEN {1} ELSE {}
            /\ Cardinality(step_failed) = Cardinality(failed)
            /\ incomplete \cup step_failed = 1..Len(r.errors)
            /\ incomplete \cap step_failed = {}
            /\ r.passed <=> (r.errors = <<>>)
            /\ r.passed <=> (~low /\ failed = {})

\* four of five steps completed, one of them late, and one failed: the
\* completeness of 0.8 is not below the minimum, the only error is the one
\* of the failed step, and there is a warning
C27_Witness ==
    /\ reply.op = "validate_workflow"
    /\ Len(reply.steps) = 5
    /\ reply.report.completed_steps = 4
    /\ reply.report.failed_steps = 1
    /\ Len(reply.report.errors) = 1
    /\ Contains(reply.report.errors[1], StepFailedText)
    /\ reply.report.warnings # <<>>
    /\ ~reply.report.passed

\* ---- C28
\* the fields the rule set of an agent id requires; none without a rule set
RuleFields(agent_id) ==
    CASE agent_id = "semantic_analysis" -> {"analysis", "significance"}
      [] agent_id = "knowledge_graph" -> {"entities", "relations"}
      [] OTHER -> {}

Mentioning(texts, pattern) == {i \in 1..Len(texts) : Contains(texts[i], pattern)}

\* C28: a validation report holds exactly one "Missing required field"
\* error per required field of the agent id that the payload lacks; for
\* semantic_analysis a significance below 5 (0 when absent) gives one
\* warning and no error; for knowledge_graph fewer than 1 entity gives one
\* error; there is no other error or warning, so an agent id without a
\* rule set gets an empty report; and passed is true exactly when there is
\* no error.
C28_AgentReport ==
    (reply.op = "validate_output" /\ "report" \in DOMAIN reply) =>
        LET r == reply.report
            a == reply.agent_id
            out == reply.output
            missing == RuleFields(a) \ DOMAIN out
            low == a = "semantic_analysis" /\ Get(out, "significance", 0) < 5
            few == a = "knowledge_graph" /\ Len(Get(out, "entities", <<>>)) < 1
        IN  /\ \A f \in missing :
                  Cardinality({i \in 1..Len(r.errors) :
                                  r.errors[i] = MissingFieldText \o CharsOf(f)}) = 1
            /\ Cardinality(Mentioning(r.errors, MissingFieldText)) = Cardinality(missing)
            /\ Cardinality(Mentioning(r.errors, InsufficientEntitiesText)) = IF few THEN 1 ELSE 0
            /\ Mentioning(r.errors, LowSignificanceText) = {}
            /\ Len(r.errors) = Cardinality(missing) + IF few THEN 1 ELSE 0
            /\ Len(r.warnings) = IF low THEN 1 ELSE 0
            /\ Mentioning(r.warnings, LowSignificanceText) = 1..Len(r.warnings)
            /\ r.passed <=> (r.errors = <<>>)
            /\ RuleFields(a) = {} => (r.errors = <<>> /\ r.warnings = <<>> /\ r.passed)

\* a semantic_analysis payload with both required fields and significance
\* 3 passed with a warning
C28_Witness ==
    /\ reply.op = "validate_output" /\ "report" \in DOMAIN reply
    /\ reply.agent_id = "semantic_analysis"
    /\ {"analysis", "significance"} \subseteq DOMAIN reply.output
    /\ reply.output.significance = 3
    /\ reply.report.passed
    /\ reply.report.errors = <<>>
    /\ Len(reply.report.warnings) = 1

\* ---- C29
\* the keys under which the results of the first n steps of x are stored
KeysBefore(x, n) == {StepKey(j - 1, x.steps[j]) : j \in 1..n}

\* C29: the payload dispatched for the step at position k (index k - 1)
\* holds the action of that step, the id of the execution, the parameters
\* the execution was created with, which never change, and a
\* previous_results map whose keys are exactly the keys of the steps
\* before k and whose values are the values stored in the results of the
\* same execution; the dispatch leaves the results of every other
\* execution as they are.
C29_StepPayload ==
    [][ \A id \in DOMAIN executions :
          /\ executions'[id].parameters = executions[id].parameters
          /\ \A k \in 1..Len(executions[id].steps) :
                Dispatches(id, k) =>
                    LET d == task'[id].step_data
                        x == executions[id]
                    IN  /\ DOMAIN d = {"action", "workflow_id", "parameters", "previous_results"}
                        /\ d.action = x.steps[k].action
                        /\ d.workflow_id = id
                        /\ d.parameters = x.parameters
                        /\ DOMAIN d.previous_results = KeysBefore(x, k - 1)
                        /\ \A key \in KeysBefore(x, k - 1) :
                              /\ key \in DOMAIN executions'[id].results
                              /\ d.previous_results[key] = executions'[id].results[key]
                        /\ (k = 1) => (d.previous_results = <<>>)
                        /\ \A other \in DOMAIN executions \ {id} :
                              executions'[other].results = executions[other].results ]_vars

\* the third step of one execution waits for its agent with the two stored
\* results in its payload while another execution holds a different
\* results map
C29_Witness ==
    \E id \in DOMAIN task : \E other \in DOMAIN executions \ {id} :
        LET x == executions[id]
        IN  /\ task[id].pc = "awaiting"
            /\ x.current_step_index = 2
            /\ task[id].step_data.previous_results = x.results
            /\ DOMAIN x.results = KeysBefore(x, 2)
            /\ executions[other].results # <<>>
            /\ executions[other].results # x.results

\* ---- C30
\* the validation of step j of x returned a report: its agent call
\* returned under qa_validation and validate_agent_output did not raise
Validated(x, j) ==
    /\ QaEnabled(x)
    /\ x.steps[j].status = "completed" \/ QAStopped(x.steps[j])
    /\ ~ValidateRaises(x.steps[j].agent, x.steps[j].result)

ValidatedSteps(x) == {j \in 1..Len(x.steps) : Validated(x, j)}

\* C30: the qa_reports of an execution are the reports of its validated
\* steps, one each and in step order, followed by at most one
\* workflow-level report, which a run that ended without an abort has;
\* without qa_validation the list holds nothing but that final report, and
\* after an execution-fatal abort it holds no workflow-level report.
C30_ReportList ==
    \A id \in DOMAIN task :
        LET x == executions[id]
            V == ValidatedSteps(x)
            W == WorkflowLevelReports(x)
            Rank(j) == Cardinality({i \in V : i <= j})
        IN  /\ Len(x.qa_reports) = Cardinality(V) + Cardinality(W)
            /\ W \subseteq {Len(x.qa_reports)}
            /\ \A j \in V :
                  x.qa_reports[Rank(j)] =
                      validate_agent_output(x.steps[j].agent, x.steps[j].result,
                                            qa_config.auto_correction_enabled,
                                            x.steps[j].end_time)
            /\ ~QaEnabled(x) => Len(x.qa_reports) = Cardinality(W)
            /\ FatallyAborted(x) => W = {}
            /\ (task[id].pc = "done" /\ ~FatallyAborted(x)) => W = {Len(x.qa_reports)}

\* a run with qa_validation validated its first step and was then aborted
\* by the call of the second: one step report, no workflow-level report
C30_Witness ==
    \E id \in DOMAIN task :
        LET x == executions[id]
        IN  /\ task[id].pc = "done"
            /\ QaEnabled(x)
            /\ Validated(x, 1)
            /\ x.steps[2].status = "failed" /\ x.steps[2].result = NoneVal
            /\ Len(x.qa_reports) = 1
            /\ ~WorkflowLevel(x.qa_reports[1])

\* ---- C31
\* the fields of a step that the run loop writes
StepState(step) ==
    [status |-> step.status, result |-> step.result, error |-> step.error,
     start_time |-> step.start_time, end_time |-> step.end_time]

\* C31: no step of the engine (execute, run task, QA validation and
\* auto-correction, monitor sweep, cancel) changes the catalog: every entry
\* keeps its name, description, step specs and config; every execution
\* keeps the agents, actions and timeouts its entry gave its steps; and a
\* step that changes the status, result, error or timestamps of a step of
\* one execution leaves the steps of every other execution, created from
\* the same entry or not, as they are.
C31_CatalogFrame ==
    [][ /\ workflows' = workflows
        /\ \A name \in DOMAIN workflows : workflows'[name] = CatalogEntry(name)
        /\ \A a \in DOMAIN executions' :
              LET entry == workflows'[executions'[a].name]
                  steps == executions'[a].steps
              IN  /\ Len(steps) = Len(entry.steps)
                  /\ executions'[a].config = entry.config
                  /\ \A i \in 1..Len(steps) :
                        /\ steps[i].agent = entry.steps[i].agent
                        /\ steps[i].action = entry.steps[i].action
                        /\ steps[i].timeout = Get(entry.steps[i], "timeout", DefaultStepTimeout)
        /\ \A a \in DOMAIN executions : \A b \in DOMAIN executions \ {a} :
              (\E i \in 1..Len(executions[a].steps) :
                    StepState(executions'[a].steps[i]) # StepState(executions[a].steps[i]))
                 => executions'[b].steps = executions[b].steps ]_vars

\* two executions of the same catalog entry whose second steps differ in
\* status, result and timestamps, with the entry as it was constructed
C31_Witness ==
    \E a \in DOMAIN executions : \E b \in DOMAIN executions \ {a} :
        /\ executions[a].name = executions[b].name
        /\ workflows[executions[a].name] = CatalogEntry(executions[a].name)
        /\ Len(executions[a].steps) >= 2
        /\ executions[a].steps[2].status = "completed"
        /\ executions[b].steps[2].status = "failed"
        /\ executions[a].steps[2].result # executions[b].steps[2].result
        /\ executions[a].steps[2].end_time # executions[b].steps[2].end_time
        /\ executions[b].steps[2].error # executions[a].steps[2].error

\* ---- C32
\* C32: no execution is in the history list more than once: the ids at any
\* two different positions of workflow_history differ.
C32_HistoryHasNoDuplicate ==
    \A i \in 1..Len(workflow_history) : \A j \in 1..Len(workflow_history) :
        i # j => workflow_history[i] # workflow_history[j]

\* ---- C33
\* the run of id was ended by an exception and the execution is still in
\* the active table
AbortedActive(id) ==
    /\ id \in DOMAIN task
    /\ task[id].pc = "done"
    /\ FatallyAborted(executions[id])
    /\ WorkflowLevelReports(executions[id]) = {}
    /\ id \in active_workflows

\* a monitor sweep finds the age of id above its max_duration in this step
SweptOverdue(id) ==
    /\ monitor' # monitor
    /\ now - executions[id].start_time > Get(executions[id].config, "max_duration", 600)
    /\ id \notin active_workflows'
    /\ InHistory(id)'
    /\ executions'[id].status = "failed"

EventuallyInHistory ==
    \A id \in Ids :
        (id \in DOMAIN executions) ~> (id \notin active_workflows /\ InHistory(id))

C34_AbsentHandlerContinues ==
    [][ \A id \in DOMAIN task :
          LET x == executions[id]
              y == executions'[id]
              k == x.current_step_index + 1
          IN  ( /\ StepReturns(id)
                /\ x.steps[k].agent \in RegisteredAgents
                /\ ~HasHandler(x.steps[k].agent, x.steps[k].action) ) =>
                  /\ y.steps[k].status = "completed"
                  /\ y.steps[k].result = NoneVal
                  /\ k < Len(x.steps) =>
                        /\ y.current_step_index = k
                        /\ y.steps[k + 1].status # "pending"
                  /\ k = Len(x.steps) =>
                        /\ task'[id].pc = "done"
                        /\ WorkflowLevelReports(y) = {Len(y.qa_reports)} ]_vars

\* ---- C35
\* C35: in every reachable state of every execution at most one step is
\* running, every step after the one current_step_index points at is
\* pending, every step before it is completed, and no step is skipped.
C35_StepOrder ==
    \A id \in DOMAIN executions :
        LET x == executions[id]
            c == x.current_step_index + 1
        IN  /\ Cardinality({k \in 1..Len(x.steps) : x.steps[k].status = "running"}) <= 1
            /\ \A k \in 1..Len(x.steps) :
                  /\ k > c => x.steps[k].status = "pending"
                  /\ k < c => x.steps[k].status = "completed"
                  /\ x.steps[k].status # "skipped"
                  /\ x.steps[k].status \in {"pending", "running", "completed", "failed"}

\* the run of a three-step workflow is in its second step: the first is
\* completed, the second running, the third pending
C35_Witness ==
    \E id \in DOMAIN executions :
        LET x == executions[id]
        IN  /\ Len(x.steps) = 3
            /\ x.current_step_index = 1
            /\ x.steps[1].status = "completed"
            /\ x.steps[2].status = "running"
            /\ x.steps[3].status = "pending"
            /\ task[id].pc = "awaiting"

\* ---- C36
\* the positions of the steps of x whose key is in the results map
StoredSteps(x) ==
    {k \in 1..Len(x.steps) : StepKey(k - 1, x.steps[k]) \in DOMAIN x.results}

\* C36: every key of an execution's results map is the key of one of its
\* steps, and that step is completed and not after the step
\* current_step_index points at; a failed step, whether failed by a QA
\* validation or by the exception of its agent call, has no entry; so
\* there are never more entries than completed steps.
C36_ResultsOfCompletedSteps ==
    \A id \in DOMAIN executions :
        LET x == executions[id]
            completed == {k \in 1..Len(x.steps) : x.steps[k].status = "completed"}
        IN  /\ DOMAIN x.results = {StepKey(k - 1, x.steps[k]) : k \in StoredSteps(x)}
            /\ \A k \in StoredSteps(x) :
                  /\ x.steps[k].status = "completed"
                  /\ k - 1 <= x.current_step_index
            /\ \A k \in 1..Len(x.steps) :
                  x.steps[k].status = "failed" => k \notin StoredSteps(x)
            /\ Cardinality(DOMAIN x.results) <= Cardinality(completed)

\* the first step of a run returned a result and was failed by the QA
\* validation: the step holds the result and the results map is empty
C36_Witness ==
    \E id \in DOMAIN executions :
        LET x == executions[id]
        IN  /\ task[id].pc = "done"
            /\ QaEnabled(x) /\ ~Partial(x)
            /\ QAStopped(x.steps[1])
            /\ x.steps[1].result # NoneVal
            /\ StoredSteps(x) = {}
            /\ x.results = <<>>
            /\ Len(x.qa_reports) = 2

\* ---- C37
\* C37: with allow_partial_completion set, a run of at least one step that
\* has ended with no step failed by a raising or timed-out agent call was
\* finalized with status completed, whatever its step reports say, and
\* none of its steps is failed.
C37_PartialRunCompletes ==
    \A id \in DOMAIN task :
        LET x == executions[id]
        IN  ( /\ task[id].pc = "done"
              /\ Partial(x)
              /\ Len(x.steps) >= 1
              /\ ~CallAborted(x) ) =>
                /\ \A k \in 1..Len(x.steps) : x.steps[k].status # "failed"
                /\ WorkflowLevelReports(x) = {Len(x.qa_reports)}
                /\ x.status = "completed"

\* ---- C38
\* cancel_workflow was called for workflow_id in this step
CancelCalled(workflow_id) ==
    /\ reply'.op = "cancel_workflow"
    /\ reply'.workflow_id = workflow_id
    /\ reply' # reply \/ executions' # executions

\* C38: a cancel_workflow for an id that is not in the active table (never
\* handed out, or of an execution that finalization, a sweep or an earlier
\* cancel has moved out) raises "Active workflow not found" and changes
\* neither the active table nor the history nor the status of any
\* execution; a cancel succeeds only for an id in the active table and
\* takes it out, and an execution that is out never comes back, so a
\* second cancel of the same execution fails.
C38_CancelOutsideActiveFails ==
    [][ /\ \A workflow_id \in RequestIds :
              CancelCalled(workflow_id) =>
                  IF workflow_id \in active_workflows
                  THEN /\ "status" \in DOMAIN reply'
                       /\ workflow_id \notin active_workflows'
                  ELSE /\ DOMAIN reply' = {"op", "workflow_id", "error"}
                       /\ reply'.error = "Active workflow not found"
                       /\ active_workflows' = active_workflows
                       /\ workflow_history' = workflow_history
                       /\ \A id \in DOMAIN executions :
                             executions'[id].status = executions[id].status
        /\ \A id \in DOMAIN executions :
              id \notin active_workflows => id \notin active_workflows' ]_vars

\* the second cancel of an execution failed: the execution is in the
\* history as cancelled and the last call of cancel_workflow for it raised
C38_Witness ==
    /\ reply.op = "cancel_workflow"
    /\ "error" \in DOMAIN reply
    /\ reply.workflow_id \in DOMAIN executions
    /\ executions[reply.workflow_id].status = "cancelled"
    /\ InHistory(reply.workflow_id)
    /\ reply.workflow_id \notin active_workflows
    /\ running

\* ---- C39
\* the execution with this id is in the active table or in the history
Findable(id) == id \in active_workflows \/ InHistory(id)

\* get_workflow_status was called for workflow_id in this step
StatusCalled(workflow_id) ==
    /\ reply'.op = "get_workflow_status"
    /\ reply'.workflow_id = workflow_id
    /\ reply' # reply

\* C39: before the shutdown of the coordinator a get_workflow_status for a
\* created execution that was not evicted from the history answers with
\* the description of the execution as it is now, whatever its status,
\* and changes nothing; it raises "Workflow not found" only for an id
\* that is in neither collection, and before the shutdown a created
\* execution is in neither collection only after a sweep of the monitor
\* has cut its last entry out of a history longer than max_history.
C39_StatusOfEveryCreated ==
    [][ /\ \A workflow_id \in RequestIds :
              StatusCalled(workflow_id) =>
                  /\ running
                  /\ UNCHANGED <<now, running, workflows, qa_config, executions,
                                 active_workflows, workflow_history, task, monitor>>
                  /\ IF workflow_id \in DOMAIN executions /\ Findable(workflow_id)
                     THEN /\ DOMAIN reply' = {"op", "workflow_id", "result"}
                          /\ reply'.result = StatusOf(workflow_id, executions[workflow_id])
                          /\ reply'.result.status = executions'[workflow_id].status
                     ELSE /\ DOMAIN reply' = {"op", "workflow_id", "error"}
                          /\ reply'.error = "Workflow not found"
        /\ \A id \in Ids :
              /\ (id \notin DOMAIN executions /\ id \in DOMAIN executions')
                    => id \in active_workflows'
              /\ (id \in DOMAIN executions /\ Findable(id) /\ running' /\ ~Findable(id)')
                    => /\ monitor' # monitor
                       /\ InHistory(id)
                       /\ Len(workflow_history) + Cardinality(active_workflows)
                             - Cardinality(active_workflows') > max_history
                       /\ Len(workflow_history') = max_history ]_vars

\* the status of an execution that is no longer active was read from the
\* history: a cancelled, a completed or a failed one
C39_Witness ==
    /\ running
    /\ reply.op = "get_workflow_status"
    /\ "result" \in DOMAIN reply
    /\ reply.workflow_id \notin active_workflows
    /\ InHistory(reply.workflow_id)
    /\ reply.result.status \in {"cancelled", "completed", "failed"}
    /\ reply.result.status = executions[reply.workflow_id].status

\* an execution evicted from the history was asked about
C39_EvictedNotFound ==
    /\ running
    /\ reply.op = "get_workflow_status"
    /\ "error" \in DOMAIN reply
    /\ reply.workflow_id \in DOMAIN executions
    /\ ~Findable(reply.workflow_id)

\* ---- C40
\* C40: the shutdown of the coordinator sets every execution of the active
\* table to cancelled with the current time as its end time and leaves
\* the other executions as they are, empties the active table, leaves
\* the history as it is, so that the executions it cancels are in neither
\* collection, and leaves every run task where it is.
C40_ShutdownFrame ==
    [][ (running /\ ~running') =>
          /\ DOMAIN executions' = DOMAIN executions
          /\ \A id \in DOMAIN executions :
                executions'[id] =
                   IF id \in active_workflows
                   THEN [executions[id] EXCEPT !.status = "cancelled", !.end_time = now]
                   ELSE executions[id]
          /\ \A id \in active_workflows : executions'[id].end_time # NoTime
          /\ active_workflows' = {}
          /\ workflow_history' = workflow_history
          /\ task' = task ]_vars

\* after the shutdown an execution it cancelled is in neither collection
\* and its run task is still waiting for the agent's answer
C40_Witness ==
    /\ ~running
    /\ active_workflows = {}
    /\ \E id \in DOMAIN executions :
          /\ executions[id].status = "cancelled"
          /\ executions[id].end_time # NoTime
          /\ ~InHistory(id)
          /\ task[id].pc = "awaiting"
====
